---- MODULE Spec2Model ----
(***************************************************************************)
(* A model of the Curly template engine (9seconds/curly):                  *)
(*   curly/utils.py   make_expression, resolve_variable, get_item_or_attr  *)
(*   curly/lexer.py   the token regular expressions and tokenize           *)
(*   curly/parser.py  the node classes (emit/process) and parse            *)
(*   curly/template.py  Template                                           *)
(*                                                                         *)
(* Python strings are modelled as sequences of one-character strings,      *)
(* Python values as tagged pairs <<tag, payload>>.  The functions of the   *)
(* program are operators; the specifications at the end of the module      *)
(* drive them step by step.                                                *)
(***************************************************************************)
EXTENDS Integers, Sequences, FiniteSets, TLC

\* ------------------------------------------------------------------------
\* Bounds of the model
\* ------------------------------------------------------------------------

\* greatest number of '.'-separated segments of a path given to resolve_variable
MaxSegs == 3
\* greatest number of fragments a template text is assembled from
MaxFrags == 4
\* greatest number of whitespace characters put on each side inside a print tag
MaxWs == 2
\* greatest number of tokens given to parse
MaxTokens == 6
\* greatest number of elements of a looped sequence or mapping
MaxItems == 2

VARIABLES
    text,       \* tokenize: the text being tokenized
    lexer,      \* tokenize: the generator's frame (position, previous_end, pending match)
    tokens,     \* the tokens yielded so far, in the order they were yielded
    stack,      \* parse: the parser's stack of nodes
    node,       \* Template.node: <<>> before compilation, <<root>> after
    context,    \* the context given to render / emit / resolve_variable
    output,     \* the chunks emitted so far (joined by process)
    path,       \* resolve_variable: the varname given by the caller
    resolver,   \* resolve_variable: the call stack and the value returned
    loop,       \* LoopNode.emit: the generator's frame
    pc,         \* position of the driving program
    raised,     \* the exception that left the program ("" if none)
    heap,       \* the dicts render works on: heap[a] is the dict at address a
    threads     \* the calls of Template.render, each with its generator frames

vars == <<text, lexer, tokens, stack, node, context, output, path,
          resolver, loop, pc, raised, heap, threads>>

\* ------------------------------------------------------------------------
\* Strings
\* ------------------------------------------------------------------------

BS == "\\"
DQ == "\""
SQ == "'"
NL == "\n"

\* the code points of the characters of the model, in ascending order
AsciiOrder ==
    << NL, " ", DQ, "%", SQ, "-", ".", "/",
       "0", "1", "2", "3", "4", "5", "6", "7", "8", "9",
       "A", "B", "C", "X", "Y", "Z", "[", BS, "]", "_",
       "a", "b", "c", "d", "e", "f", "i", "k", "l", "m", "o", "p",
       "s", "t", "u", "v", "x", "y", "{", "}" >>

Ord(c) == CHOOSE i \in 1..Len(AsciiOrder) : AsciiOrder[i] = c

Digits == <<"0", "1", "2", "3", "4", "5", "6", "7", "8", "9">>
DigitSet == {Digits[i] : i \in 1..10}
DigitVal(c) == (CHOOSE i \in 1..10 : Digits[i] = c) - 1

\* str.isspace for the characters of the model (re's \s agrees on them)
Whitespace == {" ", NL}

Drop(s, n) == SubSeq(s, n + 1, Len(s))
Take(s, n) == SubSeq(s, 1, n)

RECURSIVE Concat(_)
\* "".join(chunks)
Concat(chunks) ==
    IF chunks = <<>> THEN <<>> ELSE Head(chunks) \o Concat(Tail(chunks))

RECURSIVE LStrip(_)
LStrip(s) ==
    IF s /= <<>> /\ Head(s) \in Whitespace THEN LStrip(Tail(s)) ELSE s

RECURSIVE RStrip(_)
RStrip(s) ==
    IF s /= <<>> /\ s[Len(s)] \in Whitespace
    THEN RStrip(Take(s, Len(s) - 1)) ELSE s

\* str.strip()
Strip(s) == RStrip(LStrip(s))

\* str.isdigit()
IsDigit(s) == s /= <<>> /\ \A i \in 1..Len(s) : s[i] \in DigitSet

RECURSIVE ParseInt(_)
\* int(s) for an all-digit s
ParseInt(s) ==
    IF s = <<>> THEN 0
    ELSE 10 * ParseInt(Take(s, Len(s) - 1)) + DigitVal(s[Len(s)])

RECURSIVE FormatNat(_)
\* str(n) for n >= 0
FormatNat(n) ==
    IF n < 10 THEN <<Digits[n + 1]>>
    ELSE FormatNat(n \div 10) \o <<Digits[(n % 10) + 1]>>

\* a faulty search: the index of the last '.' of s, 0 if there is none
LastDot(s) ==
    IF \E i \in 1..Len(s) : s[i] = "."
    THEN CHOOSE i \in 1..Len(s) : s[i] = "." /\ \A j \in (i + 1)..Len(s) : s[j] /= "."
    ELSE 0

\* the index of the first '.' of s, 0 if there is none
FirstDot(s) ==
    IF \E i \in 1..Len(s) : s[i] = "."
    THEN CHOOSE i \in 1..Len(s) : s[i] = "." /\ \A j \in 1..(i - 1) : s[j] /= "."
    ELSE 0

RECURSIVE StrLess(_, _)
\* s < t for Python strings (lexicographic by code point)
StrLess(s, t) ==
    IF t = <<>> THEN FALSE
    ELSE IF s = <<>> THEN TRUE
    ELSE IF Head(s) = Head(t) THEN StrLess(Tail(s), Tail(t))
    ELSE Ord(Head(s)) < Ord(Head(t))

\* ------------------------------------------------------------------------
\* Python values: <<tag, payload>>
\*   <<"none", 0>>  <<"bool", b>>  <<"int", n>>  <<"str", chars>>
\*   <<"list", <<values>> >>
\*   <<"dict", << <<key, value>>, ... >> >>   entries in insertion order
\* ------------------------------------------------------------------------

None == <<"none", 0>>
PyBool(b) == <<"bool", b>>
PyInt(n) == <<"int", n>>
PyStr(s) == <<"str", s>>
PyList(xs) == <<"list", xs>>
PyDict(es) == <<"dict", es>>

Tag(v) == v[1]
Val(v) == v[2]

\* the outcome of a call: a returned value or a raised exception
Return(v) == <<"return", v>>
Raise(e) == <<"raise", e>>
IsReturn(r) == r[1] = "return"
IsRaise(r) == r[1] = "raise"

DictKeys(d) == {Val(d)[i][1] : i \in 1..Len(Val(d))}
DictGet(d, k) == Val(d)[CHOOSE i \in 1..Len(Val(d)) : Val(d)[i][1] = k][2]

\* d[k] = v on a copy of d: an existing key keeps its place, a new one is appended
DictSet(d, k, v) ==
    IF k \in DictKeys(d)
    THEN PyDict([i \in 1..Len(Val(d)) |->
                    IF Val(d)[i][1] = k THEN <<k, v>> ELSE Val(d)[i]])
    ELSE PyDict(Append(Val(d), <<k, v>>))

\* bool(v)
Truthy(v) ==
    CASE Tag(v) = "none" -> FALSE
      [] Tag(v) = "bool" -> Val(v)
      [] Tag(v) = "int"  -> Val(v) /= 0
      [] OTHER           -> Val(v) /= <<>>

RECURSIVE Repr(_)
RECURSIVE ReprItems(_)
RECURSIVE ReprEntries(_)
\* repr(v); the strings of the model hold no quote, backslash or control
\* character, so that repr of a string is the string between single quotes
Repr(v) ==
    CASE Tag(v) = "none" -> <<"N", "o", "n", "e">>
      [] Tag(v) = "bool" -> IF Val(v) THEN <<"T", "r", "u", "e">>
                                      ELSE <<"F", "a", "l", "s", "e">>
      [] Tag(v) = "int"  -> FormatNat(Val(v))
      [] Tag(v) = "str"  -> <<SQ>> \o Val(v) \o <<SQ>>
      [] Tag(v) = "list" -> <<"[">> \o ReprItems(Val(v)) \o <<"]">>
      [] Tag(v) = "dict" -> <<"{">> \o ReprEntries(Val(v)) \o <<"}">>
ReprItems(xs) ==
    IF xs = <<>> THEN <<>>
    ELSE IF Len(xs) = 1 THEN Repr(xs[1])
    ELSE Repr(xs[1]) \o <<",", " ">> \o ReprItems(Tail(xs))
ReprEntries(es) ==
    IF es = <<>> THEN <<>>
    ELSE LET e == Repr(es[1][1]) \o <<":", " ">> \o Repr(es[1][2])
         IN  IF Len(es) = 1 THEN e ELSE e \o <<",", " ">> \o ReprEntries(Tail(es))

\* str(v)
Str(v) == IF Tag(v) = "str" THEN Val(v) ELSE Repr(v)

\* ------------------------------------------------------------------------
\* curly/utils.py
\* ------------------------------------------------------------------------

RECURSIVE ShlexScan(_, _, _, _, _, _, _)
\* shlex.split(s): the loop of shlex.read_token in POSIX mode with
\* whitespace_split, run over the whole of s.  state is " " (between words),
\* "a" (in a word), a quote character (in quotes) or BS (after an escape).
ShlexScan(s, i, state, escapedstate, token, quoted, words) ==
    IF i > Len(s)
    THEN CASE state = " " -> Return(words)
           [] state = "a" -> Return(Append(words, token))
           [] state = BS  -> Raise("ValueError")   \* No escaped character
           [] OTHER       -> Raise("ValueError")   \* No closing quotation
    ELSE LET c == s[i] IN
         CASE state = " " ->
                IF c \in Whitespace
                THEN ShlexScan(s, i + 1, " ", " ", <<>>, FALSE, words)
                ELSE IF c = BS
                THEN ShlexScan(s, i + 1, BS, "a", token, quoted, words)
                ELSE IF c \in {SQ, DQ}
                THEN ShlexScan(s, i + 1, c, escapedstate, token, quoted, words)
                ELSE ShlexScan(s, i + 1, "a", escapedstate, <<c>>, quoted, words)
           [] state = "a" ->
                IF c \in Whitespace
                THEN IF token /= <<>> \/ quoted
                     THEN ShlexScan(s, i + 1, " ", " ", <<>>, FALSE,
                                    Append(words, token))
                     ELSE ShlexScan(s, i + 1, " ", escapedstate, token, quoted,
                                    words)
                ELSE IF c \in {SQ, DQ}
                THEN ShlexScan(s, i + 1, c, escapedstate, token, quoted, words)
                ELSE IF c = BS
                THEN ShlexScan(s, i + 1, BS, "a", token, quoted, words)
                ELSE ShlexScan(s, i + 1, "a", escapedstate, Append(token, c),
                               quoted, words)
           [] state = BS ->
                LET keep == escapedstate \in {SQ, DQ} /\ c /= BS
                            /\ c /= escapedstate
                    tok  == IF keep THEN token \o <<BS, c>> ELSE Append(token, c)
                IN  ShlexScan(s, i + 1, escapedstate, escapedstate, tok, quoted,
                              words)
           [] OTHER ->   \* in quotes
                IF c = state
                THEN ShlexScan(s, i + 1, "a", escapedstate, token, TRUE, words)
                ELSE IF c = BS /\ state = DQ
                THEN ShlexScan(s, i + 1, BS, state, token, TRUE, words)
                ELSE ShlexScan(s, i + 1, state, escapedstate, Append(token, c),
                               TRUE, words)

shlex_split(s) == ShlexScan(s, 1, " ", " ", <<>>, FALSE, <<>>)

\* make_expression(text); a group that did not take part in the match
\* (None) is passed as the empty string, which `text or ""` makes of it
make_expression(s) ==
    LET split == shlex_split(Strip(s)) IN
    IF IsRaise(split) THEN split
    ELSE IF split[2] = <<>> THEN Return(<< <<>> >>)
    ELSE split

RECURSIVE QuoteArg(_, _, _)
\* the inner loop of subprocess.list2cmdline over the characters of one
\* argument: nbs is the number of backslashes held back in bs_buf
QuoteArg(arg, i, nbs) ==
    LET bs(n) == [j \in 1..n |-> BS] IN
    IF i > Len(arg) THEN bs(nbs)
    ELSE IF arg[i] = BS THEN QuoteArg(arg, i + 1, nbs + 1)
    ELSE IF arg[i] = DQ THEN bs(2 * nbs) \o <<BS, DQ>> \o QuoteArg(arg, i + 1, 0)
    ELSE bs(nbs) \o <<arg[i]>> \o QuoteArg(arg, i + 1, 0)

RECURSIVE TrailingBS(_)
\* the backslashes left in bs_buf at the end of an argument
TrailingBS(arg) ==
    IF arg /= <<>> /\ arg[Len(arg)] = BS
    THEN Append(TrailingBS(Take(arg, Len(arg) - 1)), BS) ELSE <<>>

RECURSIVE list2cmdline(_)
\* subprocess.list2cmdline(seq)
list2cmdline(seq) ==
    IF seq = <<>> THEN <<>>
    ELSE LET arg == seq[Len(seq)]
             needquote == arg = <<>> \/ \E i \in 1..Len(arg) : arg[i] = " "
             quoted == IF needquote
                       THEN <<DQ>> \o QuoteArg(arg, 1, 0) \o TrailingBS(arg) \o <<DQ>>
                       ELSE QuoteArg(arg, 1, 0)
         IN  IF Len(seq) = 1 THEN quoted
             ELSE list2cmdline(Take(seq, Len(seq) - 1)) \o <<" ">> \o quoted

\* context[key]
Subscript(ctx, key) ==
    CASE Tag(ctx) = "dict" ->
            IF key \in DictKeys(ctx) THEN Return(DictGet(ctx, key))
            ELSE Raise("KeyError")
      [] Tag(ctx) = "list" ->
            IF Tag(key) /= "int" THEN Raise("TypeError")
            ELSE IF Val(key) < Len(Val(ctx)) THEN Return(Val(ctx)[Val(key) + 1])
            ELSE Raise("IndexError")
      [] Tag(ctx) = "str" ->
            IF Tag(key) /= "int" THEN Raise("TypeError")
            ELSE IF Val(key) < Len(Val(ctx))
            THEN Return(PyStr(<<Val(ctx)[Val(key) + 1]>>))
            ELSE Raise("IndexError")
      [] OTHER -> Raise("TypeError")

\* getattr(context, name): no name of the model is an attribute of a dict,
\* a list, a str, an int, a bool or None, and a number is not a name
GetAttr(ctx, name) ==
    IF Tag(name) = "str" THEN Raise("AttributeError") ELSE Raise("TypeError")

RECURSIVE get_item_or_attr(_, _)
get_item_or_attr(varname, ctx) ==
    LET item == Subscript(ctx, varname)
        attr == GetAttr(ctx, varname)
    IN  IF IsReturn(item) THEN item
        ELSE IF IsReturn(attr) THEN attr
        ELSE IF Tag(varname) = "str" /\ IsDigit(Val(varname))
        THEN get_item_or_attr(PyInt(ParseInt(Val(varname))), ctx)
        ELSE Raise("ValueError")

\* a faulty split: varname.rsplit(".", 1), at the last '.'
SplitLastDot(s) ==
    IF FirstDot(s) = 0 THEN <<s>>
    ELSE LET i == CHOOSE i \in 1..Len(s) :
                    s[i] = "." /\ \A j \in (i + 1)..Len(s) : s[j] /= "."
         IN  <<Take(s, i - 1), Drop(s, i)>>

\* varname.split(".", 1)
SplitFirstDot(s) ==
    IF FirstDot(s) = 0 THEN <<s>>
    ELSE <<Take(s, FirstDot(s) - 1), Drop(s, FirstDot(s))>>

\* resolve_variable as a call stack.  A frame is <<line, varname, context>>:
\*   line "try"   the frame is about to run lines 114-128 up to its first call
\*   line "head"  the frame waits at line 125 for resolve_variable(current_name)
\*   line "rest"  the frame waits at line 126 for resolve_variable(rest_name)
\* The machine is <<frames, outcome>>; outcome is <<>> while it runs.
ResolveCall(varname, ctx) == << << <<"try", varname, ctx>> >>, <<>> >>

ResolveDone(m) == m[2] /= <<>>

RECURSIVE ResolveReturn(_, _)
\* a value is returned to the caller of the top frame
ResolveReturn(frames, v) ==
    IF Len(frames) = 1 THEN <<<<>>, Return(v)>>
    ELSE LET below  == Take(frames, Len(frames) - 2)
             caller == frames[Len(frames) - 1]
             chunks == SplitFirstDot(caller[2])
         IN  IF caller[1] = "head"
             \* line 126: new_context is bound, rest_name is resolved in it
             THEN << below \o << <<"rest", caller[2], caller[3]>>,
                                 <<"try", chunks[2], v>> >>, <<>> >>
             \* line 128: resolved is returned
             ELSE ResolveReturn(Append(below, caller), v)

\* a faulty step: a dotted name is split before the direct lookup is tried
ResolveStepSplitFirst(m) ==
    LET frames == m[1]
        top    == frames[Len(frames)]
        direct == get_item_or_attr(PyStr(top[2]), top[3])
        chunks == SplitFirstDot(top[2])
    IN  IF Len(chunks) = 2
        THEN << Take(frames, Len(frames) - 1)
                  \o << <<"head", top[2], top[3]>>, <<"try", chunks[1], top[3]>> >>,
                <<>> >>
        ELSE IF IsReturn(direct) THEN ResolveReturn(frames, direct[2])
        ELSE <<<<>>, Raise("ValueError")>>

\* one step of the machine: the top frame runs up to its next call or return
ResolveStep(m) ==
    LET frames == m[1]
        top    == frames[Len(frames)]
        direct == get_item_or_attr(PyStr(top[2]), top[3])
        chunks == SplitFirstDot(top[2])
    IN  IF IsReturn(direct) THEN ResolveReturn(frames, direct[2])
        \* no handler is active at lines 125 and 126: the error leaves every frame
        ELSE IF Len(chunks) = 1 THEN <<<<>>, Raise("ValueError")>>
        ELSE << Take(frames, Len(frames) - 1)
                  \o << <<"head", top[2], top[3]>>, <<"try", chunks[1], top[3]>> >>,
                <<>> >>

RECURSIVE ResolveRun(_)
ResolveRun(m) == IF ResolveDone(m) THEN m[2] ELSE ResolveRun(ResolveStep(m))

\* resolve_variable(varname, context), run to its end
resolve_variable(varname, ctx) == ResolveRun(ResolveCall(varname, ctx))

\* ------------------------------------------------------------------------
\* curly/lexer.py: the regular expressions
\*
\* Offsets are Python's: 0-based, a span is [start, end).  A pattern is
\* matched the way re matches it: greedy repetitions give characters back
\* one at a time, alternatives are tried from left to right, and the first
\* way that succeeds is the match.
\* ------------------------------------------------------------------------

\* the character at offset p, "" past the end
At(s, p) == IF p >= 0 /\ p < Len(s) THEN s[p + 1] ELSE ""

\* text[a:b]
Slice(s, a, b) == SubSeq(s, a + 1, b)

Letters == {"A", "B", "C", "X", "Y", "Z", "a", "b", "c", "d", "e", "f", "i",
            "k", "l", "m", "o", "p", "s", "t", "u", "v", "x", "y"}

\* REGEXP_FUNCTION = [a-zA-Z0-9_-]+ : the characters of the class
FunctionChars == Letters \cup DigitSet \cup {"_", "-"}

RECURSIVE RunLength(_, _, _)
\* the number of characters of class cls that follow offset p
RunLength(s, p, cls) ==
    IF At(s, p) \in cls THEN 1 + RunLength(s, p + 1, cls) ELSE 0

RECURSIVE WsClose(_, _, _, _, _)
\* \s*%} or \s*}} at offset p with n whitespace characters taken, then
\* fewer: the end of the match, -1 if there is none
WsClose(s, p, n, c1, c2) ==
    IF At(s, p + n) = c1 /\ At(s, p + n + 1) = c2 THEN p + n + 2
    ELSE IF n = 0 THEN -1
    ELSE WsClose(s, p, n - 1, c1, c2)

RECURSIVE ExprPlus(_, _, _, _, _)
\* REGEXP_EXPRESSION = (?:\\.|[^\{\}])+ followed by \s* and the closing pair,
\* at offset p after k repetitions: <<end of the expression, end of the
\* match>>, <<>> if there is no match
ExprPlus(s, p, k, c1, c2) ==
    LET escaped == IF At(s, p) = BS /\ p + 1 < Len(s)
                   THEN ExprPlus(s, p + 2, k + 1, c1, c2) ELSE <<>>
        plain   == IF p < Len(s) /\ At(s, p) \notin {"{", "}"}
                   THEN ExprPlus(s, p + 1, k + 1, c1, c2) ELSE <<>>
        close   == WsClose(s, p, RunLength(s, p, Whitespace), c1, c2)
    IN  IF escaped /= <<>> THEN escaped
        ELSE IF plain /= <<>> THEN plain
        ELSE IF k >= 1 /\ close >= 0 THEN <<p, close>>
        ELSE <<>>

NoMatch == <<>>

\* the alternation of the regular expression engine: the first alternative
\* if it matches, the next one otherwise
OrElse(m, alt) == IF m /= NoMatch THEN m ELSE alt

RECURSIVE PrintAfterWs(_, _, _)
\* PrintToken.REGEXP after {{ with n whitespace characters taken by \s*
PrintAfterWs(s, i, n) ==
    LET m == ExprPlus(s, i + 2 + n, 0, "}", "}") IN
    IF m /= <<>>
    THEN [lastgroup |-> "PrintToken", start |-> i, end |-> m[2],
          group1 |-> <<i + 2 + n, m[1]>>, group2 |-> <<>>]
    ELSE IF n = 0 THEN NoMatch
    ELSE PrintAfterWs(s, i, n - 1)

\* PrintToken.REGEXP  {{\s*(EXPRESSION)\s*}}  at offset i
MatchPrint(s, i) ==
    IF At(s, i) = "{" /\ At(s, i + 1) = "{"
    THEN PrintAfterWs(s, i, RunLength(s, i + 2, Whitespace))
    ELSE NoMatch

RECURSIVE StartAfterFunction(_, _, _, _)
\* StartBlockToken.REGEXP after {%\s* with m characters taken by the
\* function name starting at offset f: the optional expression is tried
\* first, then its absence, then a shorter function name
StartAfterFunction(s, i, f, m) ==
    LET q     == f + m
        expr  == ExprPlus(s, q, 0, "%", "}")
        close == WsClose(s, q, RunLength(s, q, Whitespace), "%", "}")
    IN  IF m = 0 THEN NoMatch
        ELSE IF expr /= <<>>
        THEN [lastgroup |-> "StartBlockToken", start |-> i, end |-> expr[2],
              group1 |-> <<f, q>>, group2 |-> <<q, expr[1]>>]
        ELSE IF close >= 0
        THEN [lastgroup |-> "StartBlockToken", start |-> i, end |-> close,
              group1 |-> <<f, q>>, group2 |-> <<>>]
        ELSE StartAfterFunction(s, i, f, m - 1)

RECURSIVE StartAfterWs(_, _, _)
StartAfterWs(s, i, n) ==
    LET f == i + 2 + n
        m == StartAfterFunction(s, i, f, RunLength(s, f, FunctionChars))
    IN  IF m /= NoMatch THEN m
        ELSE IF n = 0 THEN NoMatch
        ELSE StartAfterWs(s, i, n - 1)

\* StartBlockToken.REGEXP  {%\s*(FUNCTION)(EXPRESSION)?\s*%}  at offset i
MatchStartBlock(s, i) ==
    IF At(s, i) = "{" /\ At(s, i + 1) = "%"
    THEN StartAfterWs(s, i, RunLength(s, i + 2, Whitespace))
    ELSE NoMatch

RECURSIVE EndAfterFunction(_, _, _, _)
EndAfterFunction(s, i, f, m) ==
    LET q     == f + m
        close == WsClose(s, q, RunLength(s, q, Whitespace), "%", "}")
    IN  IF m = 0 THEN NoMatch
        ELSE IF close >= 0
        THEN [lastgroup |-> "EndBlockToken", start |-> i, end |-> close,
              group1 |-> <<f, q>>, group2 |-> <<>>]
        ELSE EndAfterFunction(s, i, f, m - 1)

RECURSIVE EndAfterSlash(_, _, _, _)
EndAfterSlash(s, i, p, n) ==
    LET f == p + n
        m == EndAfterFunction(s, i, f, RunLength(s, f, FunctionChars))
    IN  IF m /= NoMatch THEN m
        ELSE IF n = 0 THEN NoMatch
        ELSE EndAfterSlash(s, i, p, n - 1)

RECURSIVE EndAfterWs(_, _, _)
EndAfterWs(s, i, n) ==
    LET p == i + 2 + n
        m == IF At(s, p) = "/"
             THEN EndAfterSlash(s, i, p + 1, RunLength(s, p + 1, Whitespace))
             ELSE NoMatch
    IN  IF m /= NoMatch THEN m
        ELSE IF n = 0 THEN NoMatch
        ELSE EndAfterWs(s, i, n - 1)

\* EndBlockToken.REGEXP  {%\s*/\s*(FUNCTION)\s*%}  at offset i
MatchEndBlock(s, i) ==
    IF At(s, i) = "{" /\ At(s, i + 1) = "%"
    THEN EndAfterWs(s, i, RunLength(s, i + 2, Whitespace))
    ELSE NoMatch

\* get_token_patterns(): the token classes that define REGEXP, in the order
\* of Token.__subclasses__()
get_token_patterns == <<"PrintToken", "StartBlockToken", "EndBlockToken">>

\* cls.REGEXP.match(s, i)
MatchClass(cls, s, i) ==
    CASE cls = "PrintToken"      -> MatchPrint(s, i)
      [] cls = "StartBlockToken" -> MatchStartBlock(s, i)
      [] cls = "EndBlockToken"   -> MatchEndBlock(s, i)

RECURSIVE MatchAny(_, _, _)
\* make_tokenizer_regexp(): the alternation (?P<A>..)|(?P<B>..)|(?P<C>..) at
\* offset i, from its k-th alternative on
MatchAny(s, i, k) ==
    IF k > Len(get_token_patterns) THEN NoMatch
    ELSE OrElse(MatchClass(get_token_patterns[k], s, i), MatchAny(s, i, k + 1))

RECURSIVE Search(_, _)
\* the next match finditer produces at or after offset i
Search(s, i) ==
    IF i >= Len(s) THEN NoMatch
    ELSE OrElse(MatchAny(s, i, 1), Search(s, i + 1))

\* ------------------------------------------------------------------------
\* curly/lexer.py: the tokens and tokenize
\* ------------------------------------------------------------------------

\* a token: its class, its raw string (UserString.data) and its contents
Token(cls, data, function, expression, txt) ==
    [class |-> cls, data |-> data, function |-> function,
     expression |-> expression, text |-> txt]

\* the text of group g of a match in s ("" for a group that did not match)
Group(s, g) == IF g = <<>> THEN <<>> ELSE Slice(s, g[1], g[2])

\* a token whose contents hold an expression: make_expression may raise
WithExpression(cls, raw_string, function, expr) ==
    IF IsRaise(expr) THEN expr
    ELSE Return(Token(cls, raw_string, function, expr[2], <<>>))

\* PrintToken.extract_contents, StartBlockToken.extract_contents and
\* EndBlockToken.extract_contents
extract_contents(cls, raw_string, matcher) ==
    CASE cls = "PrintToken" ->
            WithExpression(cls, raw_string, <<>>,
                make_expression(Group(raw_string, matcher.group1)))
      [] cls = "StartBlockToken" ->
            WithExpression(cls, raw_string,
                Strip(Group(raw_string, matcher.group1)),
                make_expression(Group(raw_string, matcher.group2)))
      [] cls = "EndBlockToken" ->
            Return(Token(cls, raw_string,
                         Strip(Group(raw_string, matcher.group1)), <<>>, <<>>))

\* Token.__init__ after matcher = self.REGEXP.match(raw_string)
TokenInit(cls, raw_string, matcher) ==
    IF matcher = NoMatch THEN Raise("ValueError")
    ELSE extract_contents(cls, raw_string, matcher)

\* Token.__init__(raw_string) of a class with a REGEXP
NewToken(cls, raw_string) ==
    TokenInit(cls, raw_string, MatchClass(cls, raw_string, 0))

\* a faulty unescape: every backslash is removed
TextUnescapeAll(s, p) == SelectSeq(Drop(s, p), LAMBDA c : c /= BS)

RECURSIVE TextUnescape(_, _)
\* LiteralToken.TEXT_UNESCAPE.sub(r"\1", text), from offset p on: the
\* matches of \\(.) are found from left to right and do not overlap; what
\* lies between them is copied
TextUnescape(s, p) ==
    IF p >= Len(s) THEN <<>>
    ELSE IF At(s, p) = BS /\ p + 1 < Len(s)
    THEN <<At(s, p + 1)>> \o TextUnescape(s, p + 2)
    ELSE <<At(s, p)>> \o TextUnescape(s, p + 1)

\* a faulty LiteralToken: the text is stripped of its whitespace
LiteralTokenStripped(txt) ==
    Token("LiteralToken", txt, <<>>, <<>>, Strip(TextUnescape(txt, 0)))

\* LiteralToken.__init__(text)
LiteralToken(txt) == Token("LiteralToken", txt, <<>>, <<>>, TextUnescape(txt, 0))

\* The frame of the generator tokenize(text):
\*   line "for"    at the head of the for loop (line 252), also before the
\*                 first next()
\*   line "token"  suspended at the yield of line 254, matcher is pending
\*   line "end"    suspended at the yield of line 263
\*   line "closed" finished or left by an exception
TokenizeStart == [line |-> "for", previous_end |-> 0, matcher |-> NoMatch]

Closed(f) == [f EXCEPT !.line = "closed", !.matcher = NoMatch]

\* line 259: the token is yielded unless its construction raised
TokenizeYield(f, matcher, made) ==
    IF IsRaise(made) THEN <<Closed(f), made>>
    ELSE << [line |-> "for", previous_end |-> matcher.end, matcher |-> NoMatch],
            <<"yield", made[2]>> >>

\* lines 255-259: previous_end is moved and the token of the match is built
TokenizeMatch(s, f, matcher) ==
    TokenizeYield(f, matcher,
        NewToken(matcher.lastgroup, Slice(s, matcher.start, matcher.end)))

\* a faulty loop: the text after the last match is not yielded
TokenizeForDropTail(s, f, matcher) ==
    IF matcher /= NoMatch
    THEN IF matcher.start /= f.previous_end
         THEN << [f EXCEPT !.line = "token", !.matcher = matcher],
                 <<"yield", LiteralToken(Slice(s, f.previous_end,
                                               matcher.start))>> >>
         ELSE TokenizeMatch(s, f, matcher)
    ELSE <<Closed(f), <<"stop">> >>

\* lines 252-263 with the next match of finditer at hand
TokenizeFor(s, f, matcher) ==
    IF matcher /= NoMatch
    THEN IF matcher.start /= f.previous_end
         THEN << [f EXCEPT !.line = "token", !.matcher = matcher],
                 <<"yield", LiteralToken(Slice(s, f.previous_end,
                                               matcher.start))>> >>
         ELSE TokenizeMatch(s, f, matcher)
    ELSE IF f.previous_end < Len(s)
    THEN << [f EXCEPT !.line = "end"],
            <<"yield", LiteralToken(Slice(s, f.previous_end, Len(s)))>> >>
    ELSE <<Closed(f), <<"stop">> >>

\* next(tokenize(text)): the generator runs to its next yield.  The result is
\* <<frame, outcome>>; outcome is <<"yield", token>>, <<"stop">> or a Raise.
TokenizeNext(s, f) ==
    CASE f.line = "for"    -> TokenizeFor(s, f, Search(s, f.previous_end))
      [] f.line = "token"  -> TokenizeMatch(s, f, f.matcher)
      [] f.line = "end"    -> <<Closed(f), <<"stop">> >>
      [] f.line = "closed" -> <<f, <<"stop">> >>

\* ------------------------------------------------------------------------
\* curly/parser.py: the nodes
\* ------------------------------------------------------------------------

\* the token of a RootNode (None)
NoToken == Token("None", <<>>, <<>>, <<>>, <<>>)

\* Node.__init__ and the __init__ of its subclasses: data is the UserList of
\* subnodes, elsenode is <<>> (None) or <<node>>
Node(type, token) ==
    [type |-> type, token |-> token,
     done |-> type \in {"LiteralNode", "PrintNode"},
     data |-> <<>>, elsenode |-> <<>>]
LiteralNode(token) == Node("LiteralNode", token)
PrintNode(token) == Node("PrintNode", token)
ConditionalNode(token) == Node("ConditionalNode", token)
IfNode(token) == Node("IfNode", token)
ElseNode(token) == Node("ElseNode", token)
LoopNode(token) == Node("LoopNode", token)
RootNode(nodes) == [Node("RootNode", NoToken) EXCEPT !.done = TRUE, !.data = nodes]

\* bool(node) of a UserList: it has neither __bool__ nor a __len__ of its
\* own, so a node is true when it has subnodes
NodeTruthy(n) == Len(n.data) > 0

\* ExpressionMixin.evaluate_expression
evaluate_expression(n, ctx) ==
    resolve_variable(list2cmdline(n.token.expression), ctx)

\* what a generator gave before it ended: the chunks it yielded and the
\* exception that ended it ("" when it was exhausted)
Emitted(chunks, exc) == [chunks |-> chunks, exc |-> exc]

\* the keys of a dict can be ordered by sorted() when they are all strings
\* or all numbers
KeyLess(a, b) ==
    IF Tag(a) = "str" THEN StrLess(Val(a), Val(b)) ELSE Val(a) < Val(b)

RECURSIVE InsertSorted(_, _)
InsertSorted(es, e) ==
    IF es = <<>> THEN <<e>>
    ELSE IF KeyLess(e[1], es[1][1]) THEN <<e>> \o es
    ELSE <<es[1]>> \o InsertSorted(Tail(es), e)

\* a faulty order: the items of the dict as they were inserted
Unsorted(es) == es

RECURSIVE Sorted(_)
\* sorted(resolved.items()) for comparable keys
Sorted(es) ==
    IF es = <<>> THEN <<>>
    ELSE InsertSorted(Sorted(Take(es, Len(es) - 1)), es[Len(es)])

S_item == <<"i", "t", "e", "m">>
S_key == <<"k", "e", "y">>
S_value == <<"v", "a", "l", "u", "e">>

\* LoopNode.emit, lines 371-377: the values `item` is bound to, in the order
\* of the iteration, or the exception the iteration raises
LoopItems(resolved) ==
    CASE Tag(resolved) = "dict" ->
            IF \E a, b \in DictKeys(resolved) : Tag(a) /= Tag(b)
            THEN Raise("TypeError")
            ELSE LET es == Sorted(Val(resolved)) IN
                 Return([i \in 1..Len(es) |->
                           PyDict(<< <<PyStr(S_key), es[i][1]>>,
                                     <<PyStr(S_value), es[i][2]>> >>)])
      [] Tag(resolved) = "list" -> Return(Val(resolved))
      [] Tag(resolved) = "str" ->
            Return([i \in 1..Len(Val(resolved)) |-> PyStr(<<Val(resolved)[i]>>)])
      [] OTHER -> Raise("TypeError")

\* The frame of the generator LoopNode.emit(context) once lines 368-369 have
\* run: the values still to be visited, context_copy and what was emitted
LoopFrame(items, context_copy, emitted) ==
    [items |-> items, context_copy |-> context_copy, emitted |-> emitted]

RECURSIVE Emit(_, _)
RECURSIVE NodeEmit(_, _, _)
RECURSIVE LoopIterate(_, _)

\* a faulty sequencing: the chunks of `first` are dropped
ThenLast(first, rest) == IF first.exc /= "" THEN first ELSE rest

\* yield from: the chunks of `first`, then those of `rest` unless `first`
\* ended by an exception
Then(first, rest) ==
    IF first.exc /= "" THEN first
    ELSE Emitted(first.chunks \o rest.chunks, rest.exc)

\* line 374 or 378: the body has emitted and the for loop goes on, unless
\* the body raised
LoopYield(f, copy, body) ==
    LoopFrame(IF body.exc = "" THEN Tail(f.items) ELSE <<>>, copy,
              Then(f.emitted, body))

\* line 373 or 377 is done: context_copy["item"] is bound
LoopBody(n, f, copy) == LoopYield(f, copy, NodeEmit(n, copy, 1))

\* lines 373-374 and 377-378: one turn of the for loop of LoopNode.emit
LoopTurn(n, f) ==
    LoopBody(n, f, DictSet(f.context_copy, PyStr(S_item), Head(f.items)))

\* the for loop of LoopNode.emit, to its end
LoopIterate(n, f) ==
    IF f.items = <<>> THEN f.emitted ELSE LoopIterate(n, LoopTurn(n, f))

\* lines 369-376: the context is copied and the iteration set up
LoopOver(ctx, items) ==
    IF IsRaise(items) THEN LoopFrame(<<>>, ctx, Emitted(<<>>, items[2]))
    ELSE LoopFrame(items[2], ctx, Emitted(<<>>, ""))

\* line 368 is done: the expression is resolved, or has raised
LoopResolved(ctx, resolved) ==
    IF IsRaise(resolved) THEN LoopFrame(<<>>, ctx, Emitted(<<>>, resolved[2]))
    ELSE LoopOver(ctx, LoopItems(resolved[2]))

\* lines 368-371 of LoopNode.emit: the expression is resolved, the context
\* copied and the iteration set up
LoopEnter(n, ctx) == LoopResolved(ctx, evaluate_expression(n, ctx))

\* Node.emit: the subnodes emit in turn, from the i-th on
NodeEmit(n, ctx, i) ==
    IF i > Len(n.data) THEN Emitted(<<>>, "")
    ELSE Then(Emit(n.data[i], ctx), NodeEmit(n, ctx, i + 1))

\* a faulty IfNode.emit: the else branch is emitted after the body
IfBranchFallThrough(n, ctx, guard) ==
    IF IsRaise(guard) THEN Emitted(<<>>, guard[2])
    ELSE IF n.elsenode /= <<>> /\ NodeTruthy(n.elsenode[1])
    THEN Then(IF Truthy(guard[2]) THEN NodeEmit(n, ctx, 1) ELSE Emitted(<<>>, ""),
              Emit(n.elsenode[1], ctx))
    ELSE IF Truthy(guard[2]) THEN NodeEmit(n, ctx, 1)
    ELSE Emitted(<<>>, "")

\* IfNode.emit once the expression is evaluated
IfBranch(n, ctx, guard) ==
    IF IsRaise(guard) THEN Emitted(<<>>, guard[2])
    ELSE IF Truthy(guard[2]) THEN NodeEmit(n, ctx, 1)
    ELSE IF n.elsenode /= <<>> /\ NodeTruthy(n.elsenode[1])
    THEN Emit(n.elsenode[1], ctx)
    ELSE Emitted(<<>>, "")

\* IfNode.emit
IfNodeEmit(n, ctx) == IfBranch(n, ctx, evaluate_expression(n, ctx))

\* a faulty PrintNode.emit: repr(value) instead of str(value)
PrintedRepr(value) ==
    IF IsRaise(value) THEN Emitted(<<>>, value[2])
    ELSE Emitted(<<Repr(value[2])>>, "")

\* PrintNode.emit once the expression is evaluated
Printed(value) ==
    IF IsRaise(value) THEN Emitted(<<>>, value[2])
    ELSE Emitted(<<Str(value[2])>>, "")

\* node.emit(context), drained
Emit(n, ctx) ==
    CASE n.type = "LiteralNode" -> Emitted(<<n.token.text>>, "")
      [] n.type = "PrintNode" -> Printed(evaluate_expression(n, ctx))
      [] n.type = "IfNode" -> IfNodeEmit(n, ctx)
      [] n.type = "LoopNode" -> LoopIterate(n, LoopEnter(n, ctx))
      \* ConditionalNode.emit: self.ifnode is never set, None has no emit
      [] n.type = "ConditionalNode" -> Emitted(<<>>, "AttributeError")
      [] OTHER -> NodeEmit(n, ctx, 1)

\* a faulty join: the chunks yielded before the exception are returned
JoinedPartial(e) == Return(Concat(e.chunks))

\* "".join(chunks) of a drained generator
Joined(e) == IF e.exc /= "" THEN Raise(e.exc) ELSE Return(Concat(e.chunks))

\* Node.process
process(n, ctx) == Joined(Emit(n, ctx))

\* ------------------------------------------------------------------------
\* curly/parser.py: parse
\* ------------------------------------------------------------------------

S_if == <<"i", "f">>
S_elif == <<"e", "l", "i", "f">>
S_else == <<"e", "l", "s", "e">>
S_loop == <<"l", "o", "o", "p">>

\* an exception of curly/exceptions.py with the token it reports
ParserError(name, token) == <<"raise", name, token>>

RECURSIVE RewindPop(_, _)
\* the while loop of rewind_stack_for: <<stack, node, nodes>> at the break,
\* <<>> when the stack is exhausted (the else branch of the loop)
RewindPop(stk, nodes) ==
    IF stk = <<>> THEN <<>>
    ELSE LET n == stk[Len(stk)]
             rest == Take(stk, Len(stk) - 1)
         IN  IF ~n.done THEN <<rest, n, nodes>>
             ELSE RewindPop(rest, Append(nodes, n))

\* a faulty rewind_stack_for: the popped nodes are not put back in order
Unreversed(xs) == xs

\* nodes[::-1]
Reversed(xs) == [i \in 1..Len(xs) |-> xs[Len(xs) + 1 - i]]

\* a faulty rewind_stack_for: the class of the unfinished node is not tested
RewoundUnchecked(popped, search_for) ==
    IF popped = <<>>
    THEN ParserError("CurlyParserNoUnfinishedNodeError", NoToken)
    ELSE Return(Append(popped[1],
                       [popped[2] EXCEPT !.done = TRUE,
                                         !.data = Reversed(popped[3])]))

\* lines 939-947 of rewind_stack_for, after the while loop
Rewound(popped, search_for) ==
    IF popped = <<>>
    THEN ParserError("CurlyParserNoUnfinishedNodeError", NoToken)
    ELSE IF popped[2].type \notin search_for
    THEN ParserError("CurlyParserUnexpectedUnfinishedNodeError", popped[2].token)
    ELSE Return(Append(popped[1],
                       [popped[2] EXCEPT !.done = TRUE,
                                         !.data = Reversed(popped[3])]))

\* rewind_stack_for(stack, search_for=...)
rewind_stack_for(stk, search_for) == Rewound(RewindPop(stk, <<>>), search_for)

\* stack.append(node) on the stack a call has returned, if it returned
Pushed(rewound, n) ==
    IF IsRaise(rewound) THEN rewound ELSE Return(Append(rewound[2], n))

parse_literal_token(stk, token) == Return(Append(stk, LiteralNode(token)))

parse_print_token(stk, token) == Return(Append(stk, PrintNode(token)))

parse_start_if_token(stk, token) ==
    Return(stk \o <<ConditionalNode(token), IfNode(token)>>)

\* a faulty parse_start_elif_token: an unfinished ElseNode is accepted too
ParseElifAfterElse(stk, token) ==
    Pushed(rewind_stack_for(stk, {"IfNode", "ElseNode"}), IfNode(token))

parse_start_elif_token(stk, token) ==
    Pushed(rewind_stack_for(stk, {"IfNode"}), IfNode(token))

\* a faulty parse_start_else_token: an unfinished ElseNode is accepted too
ParseElseAfterElse(stk, token) ==
    Pushed(rewind_stack_for(stk, {"IfNode", "ElseNode"}), ElseNode(token))

parse_start_else_token(stk, token) ==
    Pushed(rewind_stack_for(stk, {"IfNode"}), ElseNode(token))

parse_start_loop_token(stk, token) == Return(Append(stk, LoopNode(token)))

\* a faulty parse_end_loop_token: with no unfinished node the tag is skipped
ParseEndLoopLenient(stk, token) ==
    IF RewindPop(stk, <<>>) = <<>> THEN Return(stk)
    ELSE rewind_stack_for(stk, {"LoopNode"})

parse_end_loop_token(stk, token) == rewind_stack_for(stk, {"LoopNode"})

RECURSIVE LinkElse(_)
\* the for loop of parse_end_if_token over the nodes of cond: each node gets
\* its successor as elsenode.  The nodes are objects, so that the first node
\* reaches the whole chain once the loop has ended.
LinkElse(nodes) ==
    IF Len(nodes) = 1 THEN nodes[1]
    ELSE [nodes[1] EXCEPT !.elsenode = <<LinkElse(Tail(nodes))>>]

\* lines 855-865 of parse_end_if_token: cond is popped and its nodes linked
EndIfLink(below, cond) ==
    IF \E i \in 1..(Len(cond.data) - 1) : cond.data[i].type = "ElseNode"
    THEN ParserError("ValueError", cond.data[1].token)
    ELSE Return(Append(below, LinkElse(cond.data)))

\* line 853 of parse_end_if_token has returned or raised
EndIfClosed(closed) ==
    IF IsRaise(closed) THEN closed
    ELSE EndIfLink(Take(closed[2], Len(closed[2]) - 1), closed[2][Len(closed[2])])

\* line 852 of parse_end_if_token has returned or raised
EndIfBranch(branch) ==
    IF IsRaise(branch) THEN branch
    ELSE EndIfClosed(rewind_stack_for(branch[2], {"ConditionalNode"}))

\* parse_end_if_token
parse_end_if_token(stk, token) ==
    EndIfBranch(rewind_stack_for(stk, {"IfNode", "ElseNode"}))

\* a faulty parse_start_block_token: an unknown function opens a loop
ParseStartBlockLenient(stk, token) ==
    CASE token.function = S_if   -> parse_start_if_token(stk, token)
      [] token.function = S_elif -> parse_start_elif_token(stk, token)
      [] token.function = S_else -> parse_start_else_token(stk, token)
      [] OTHER -> parse_start_loop_token(stk, token)

\* parse_start_block_token
parse_start_block_token(stk, token) ==
    CASE token.function = S_if   -> parse_start_if_token(stk, token)
      [] token.function = S_elif -> parse_start_elif_token(stk, token)
      [] token.function = S_else -> parse_start_else_token(stk, token)
      [] token.function = S_loop -> parse_start_loop_token(stk, token)
      [] OTHER -> ParserError("CurlyParserUnknownStartBlockError", token)

\* parse_end_block_token
parse_end_block_token(stk, token) ==
    CASE token.function = S_if   -> parse_end_if_token(stk, token)
      [] token.function = S_loop -> parse_end_loop_token(stk, token)
      [] OTHER -> ParserError("CurlyParserUnknownEndBlockError", token)

\* the body of the for loop of parse: one token is dispatched on its class
ParseToken(stk, token) ==
    CASE token.class = "LiteralToken"    -> parse_literal_token(stk, token)
      [] token.class = "PrintToken"      -> parse_print_token(stk, token)
      [] token.class = "StartBlockToken" -> parse_start_block_token(stk, token)
      [] token.class = "EndBlockToken"   -> parse_end_block_token(stk, token)
      [] OTHER -> ParserError("CurlyParserUnknownTokenError", token)

\* the exception a call raised (<<>> if it returned), or else what follows
FirstRaised(sub, rest) == IF sub /= <<>> THEN sub ELSE rest

RECURSIVE ParseTokens(_, _)
RECURSIVE validate_for_all_nodes_done(_)
RECURSIVE ValidateFrom(_, _, _)
\* the loops of validate_for_all_nodes_done(root), from the i-th node of the
\* outer loop and the j-th subnode of the inner loop on (j = 0: the test of
\* node.done is still to be made): <<>> or the exception raised
ValidateFrom(root, i, j) ==
    IF i > Len(root.data) THEN <<>>
    ELSE IF j = 0
    THEN IF ~root.data[i].done
         THEN ParserError("CurlyParserFoundNotDoneError", root.data[i].token)
         ELSE ValidateFrom(root, i, 1)
    ELSE IF j > Len(root.data) THEN ValidateFrom(root, i + 1, 0)
    ELSE FirstRaised(validate_for_all_nodes_done(root.data[j]),
                     ValidateFrom(root, i, j + 1))

\* a faulty validation: only the first node of the root is tested
ValidateFirst(root) ==
    IF root.data /= <<>> /\ ~root.data[1].done
    THEN ParserError("CurlyParserFoundNotDoneError", root.data[1].token)
    ELSE <<>>

validate_for_all_nodes_done(root) == ValidateFrom(root, 1, 0)

\* a faulty parse: the root is returned whatever the validation found
ValidatedAlways(root, invalid) == Return(root)

\* lines 656-658 of parse: the root is returned if it is valid
Validated(root, invalid) == IF invalid /= <<>> THEN invalid ELSE Return(root)

\* lines 655-658 of parse: the root is built and validated
ParseFinish(stk) ==
    Validated(RootNode(stk), validate_for_all_nodes_done(RootNode(stk)))

\* a faulty for loop: after a token that raised, parse starts afresh with
\* the tokens that follow
ParseOnAfresh(shifted, toks) ==
    IF IsRaise(shifted) /\ toks = <<>> THEN shifted
    ELSE IF IsRaise(shifted) THEN ParseTokens(<<>>, toks)
    ELSE ParseTokens(shifted[2], toks)

\* the for loop of parse goes on with the stack a parse function returned
ParseOn(shifted, toks) ==
    IF IsRaise(shifted) THEN shifted ELSE ParseTokens(shifted[2], toks)

\* parse(tokens) for a list of tokens
ParseTokens(stk, toks) ==
    IF toks = <<>> THEN ParseFinish(stk)
    ELSE ParseOn(ParseToken(stk, Head(toks)), Tail(toks))

parse(toks) == ParseTokens(<<>>, toks)

\* ------------------------------------------------------------------------
\* Inputs
\* ------------------------------------------------------------------------

S_a == <<"a">>
S_b == <<"b">>
S_x == <<"x">>

RECURSIVE SeqsUpTo(_, _)
\* the sequences of at most n elements of S
SeqsUpTo(S, n) ==
    IF n = 0 THEN {<<>>}
    ELSE LET shorter == SeqsUpTo(S, n - 1) IN
         shorter \cup {Append(q, e) : q \in shorter, e \in S}

\* the segments paths are made of
Segments == {S_a, S_b, <<"0">>}

RECURSIVE PathsOf(_)
\* the paths of exactly n segments
PathsOf(n) ==
    IF n = 1 THEN Segments
    ELSE {p \o <<".">> \o q : p \in PathsOf(n - 1), q \in Segments}

Paths == UNION {PathsOf(n) : n \in 1..MaxSegs}

Scalars == {PyInt(1), PyStr(S_x)}

\* values of one level: a scalar, a list of one scalar, a dict of one entry
Inner ==
    Scalars
    \cup {PyList(<<>>), PyDict(<<>>)}
    \cup {PyList(<<v>>) : v \in Scalars}
    \cup {PyDict(<< <<k, v>> >>) : k \in {PyStr(S_b), PyStr(<<"0">>), PyInt(0)},
                                   v \in Scalars}

\* values of two levels
Nested ==
    Inner
    \cup {PyList(<<v>>) : v \in Inner}
    \cup {PyDict(<< <<PyStr(S_b), v>> >>) : v \in Inner}

\* the contexts resolve_variable is called with: the keys "a" and "a.b",
\* each absent or bound
ResolveContexts ==
    {PyDict(a \o ab) :
        a  \in {<<>>} \cup {<< <<PyStr(S_a), v>> >> : v \in Nested},
        ab \in {<<>>} \cup {<< <<PyStr(<<"a", ".", "b">>), v>> >> : v \in Inner}}

\* the fragments template texts are assembled from
Fragments ==
    { <<"{", "{">>, <<"}", "}">>, <<"{", "%">>, <<"%", "}">>,
      <<BS>>, <<SQ>>, <<" ">>, <<"a">> }

FreeTexts == {Concat(q) : q \in SeqsUpTo(Fragments, MaxFrags)}

\* texts of backslashes, single braces and letters
EscapedTexts == SeqsUpTo({BS, "{", "}", "a"}, MaxFrags)

\* {{ p }}, {% function expression %} and {% /function %} as they are written
PrintTag(before, p, after) ==
    <<"{", "{">> \o before \o p \o after \o <<"}", "}">>
StartTag(function, expression) ==
    <<"{", "%">> \o function \o expression \o <<"%", "}">>
EndTag(function) == <<"{", "%", "/">> \o function \o <<"%", "}">>

\* the paths print tags are written with
PrintPaths ==
    { S_a, <<"0">>, <<"a", ".", "b">>, <<"b", ".", "1">>, <<"a", ".", "0">>,
      <<"a", ".", "0", ".", "b">> }

\* a print tag {{ p }} with any whitespace around the path p
PrintTexts ==
    { PrintTag(before, p, after) :
        before \in SeqsUpTo(Whitespace, MaxWs),
        after \in SeqsUpTo(Whitespace, MaxWs), p \in PrintPaths }

\* templates with blocks
BlockTexts ==
    { StartTag(S_if, <<" ">> \o S_a) \o <<"1">>
        \o StartTag(S_elif, <<" ">> \o S_b) \o <<"2">>
        \o StartTag(S_else, <<>>) \o <<"3">> \o EndTag(S_if),
      StartTag(S_if, <<" ", "0">>) \o StartTag(S_elif, <<" ", "0">>)
        \o StartTag(S_else, <<>>) \o <<"3">> \o EndTag(S_if),
      StartTag(S_loop, <<" ">> \o S_b) \o PrintTag(<<>>, S_item, <<>>)
        \o <<";">> \o EndTag(S_loop),
      StartTag(S_loop, <<" ">> \o S_a) \o PrintTag(<<" ">>, S_item \o <<".">> \o S_key, <<>>)
        \o EndTag(S_loop),
      StartTag(S_loop, <<" ">> \o S_a) \o <<"1">> \o EndTag(S_if),
      StartTag(S_if, <<" ">> \o S_a) \o <<"1">>,
      StartTag(S_loop, <<" ", "0">>) \o <<"1">> \o EndTag(S_loop) }

Texts == FreeTexts \cup EscapedTexts \cup PrintTexts \cup BlockTexts

\* the contexts templates are rendered with
ContextA ==
    PyDict(<< <<PyStr(S_a), PyDict(<< <<PyStr(S_b), PyStr(S_x)>>,
                                      <<PyStr(<<"0">>), PyBool(TRUE)>> >>)>>,
              <<PyStr(<<"a", ".", "b">>), PyInt(12)>>,
              <<PyStr(S_b), PyList(<<None, PyStr(<<"x", "y">>)>>)>>,
              <<PyStr(<<"0">>), PyInt(0)>> >>)
ContextB ==
    PyDict(<< <<PyStr(S_a), PyList(<< PyDict(<< <<PyStr(S_b), PyInt(1)>>,
                                               <<PyStr(S_a), PyList(<<>>)>> >>) >>)>>,
              <<PyStr(S_b), PyStr(<<"x", "y">>)>> >>)
RenderContexts == {ContextA, ContextB, PyDict(<<>>)}

\* ------------------------------------------------------------------------
\* SpecResolve: one call resolve_variable(varname, context)
\* ------------------------------------------------------------------------

InitResolve ==
    /\ pc = "resolve"
    /\ text = <<>>
    /\ lexer = TokenizeStart
    /\ tokens = <<>>
    /\ stack = <<>>
    /\ node = <<>>
    /\ output = Emitted(<<>>, "")
    /\ loop = LoopFrame(<<>>, PyDict(<<>>), Emitted(<<>>, ""))
    /\ raised = ""
    /\ heap = <<>>
    /\ threads = <<>>
    /\ path \in Paths
    /\ context \in ResolveContexts
    /\ resolver = ResolveCall(path, context)

ResolveTop == resolver[1][Len(resolver[1])]
ResolveDirect == get_item_or_attr(PyStr(ResolveTop[2]), ResolveTop[3])

ResolveAdvance ==
    /\ resolver' = ResolveStep(resolver)
    /\ pc' = IF ResolveDone(resolver') THEN "resolved" ELSE "resolve"
    /\ raised' = IF ResolveDone(resolver') /\ IsRaise(resolver'[2])
                 THEN resolver'[2][2] ELSE ""
    /\ UNCHANGED <<heap, threads, text, lexer, tokens, stack, node, context, output, path,
                   loop>>

\* lines 114-115: the direct lookup succeeds and the frame returns
ResolveFound ==
    /\ pc = "resolve"
    /\ IsReturn(ResolveDirect)
    /\ ResolveAdvance

\* lines 119-125: the direct lookup fails, the name is split at its first '.'
\* and the head is resolved
ResolveSplit ==
    /\ pc = "resolve"
    /\ IsRaise(ResolveDirect)
    /\ FirstDot(ResolveTop[2]) /= 0
    /\ ResolveAdvance

\* lines 120-122: the direct lookup fails and there is no '.' to split at
ResolveFail ==
    /\ pc = "resolve"
    /\ IsRaise(ResolveDirect)
    /\ FirstDot(ResolveTop[2]) = 0
    /\ ResolveAdvance

NextResolve == ResolveFound \/ ResolveSplit \/ ResolveFail

SpecResolve == InitResolve /\ [][NextResolve]_vars

\* ------------------------------------------------------------------------
\* SpecTokenize: list(tokenize(text)), the generator drained by its caller
\* ------------------------------------------------------------------------

InitTokenize ==
    /\ pc = "tokenize"
    /\ text \in Texts
    /\ lexer = TokenizeStart
    /\ tokens = <<>>
    /\ stack = <<>>
    /\ node = <<>>
    /\ context = PyDict(<<>>)
    /\ output = Emitted(<<>>, "")
    /\ path = <<>>
    /\ resolver = <<<<>>, <<>>>>
    /\ loop = LoopFrame(<<>>, PyDict(<<>>), Emitted(<<>>, ""))
    /\ raised = ""
    /\ heap = <<>>
    /\ threads = <<>>

\* what the next resumption of the generator gives
Resumed == TokenizeNext(text, lexer)

\* the generator yields a LiteralToken (line 254 or 263)
IterLiteral ==
    /\ pc = "tokenize"
    /\ \E r \in {Resumed} :
        /\ r[2][1] = "yield"
        /\ r[2][2].class = "LiteralToken"
        /\ lexer' = r[1]
        /\ tokens' = Append(tokens, r[2][2])
    /\ UNCHANGED <<heap, threads, text, stack, node, context, output, path, resolver, loop,
                   pc, raised>>

\* the generator yields the token of a match (line 259)
IterTag ==
    /\ pc = "tokenize"
    /\ \E r \in {Resumed} :
        /\ r[2][1] = "yield"
        /\ r[2][2].class /= "LiteralToken"
        /\ lexer' = r[1]
        /\ tokens' = Append(tokens, r[2][2])
    /\ UNCHANGED <<heap, threads, text, stack, node, context, output, path, resolver, loop,
                   pc, raised>>

\* the generator returns: StopIteration ends the caller's loop
IterStop ==
    /\ pc = "tokenize"
    /\ \E r \in {Resumed} :
        /\ r[2][1] = "stop"
        /\ lexer' = r[1]
    /\ pc' = "exhausted"
    /\ UNCHANGED <<heap, threads, text, tokens, stack, node, context, output, path, resolver,
                   loop, raised>>

\* the construction of a token raises inside the generator (line 259)
IterRaise ==
    /\ pc = "tokenize"
    /\ \E r \in {Resumed} :
        /\ IsRaise(r[2])
        /\ lexer' = r[1]
        /\ raised' = r[2][2]
    /\ pc' = "failed"
    /\ UNCHANGED <<heap, threads, text, tokens, stack, node, context, output, path, resolver,
                   loop>>

NextTokenize == IterLiteral \/ IterTag \/ IterStop \/ IterRaise

SpecTokenize == InitTokenize /\ [][NextTokenize]_vars

\* ------------------------------------------------------------------------
\* Spec: Template(text).render(context).  parse pulls the tokens out of the
\* generator one at a time, so that a token is built only when the tokens
\* before it have been shifted.
\* ------------------------------------------------------------------------

Init ==
    /\ pc = "compile"
    /\ text \in Texts
    /\ lexer = TokenizeStart
    /\ tokens = <<>>
    /\ stack = <<>>
    /\ node = <<>>
    /\ context = PyDict(<<>>)
    /\ output = Emitted(<<>>, "")
    /\ path = <<>>
    /\ resolver = <<<<>>, <<>>>>
    /\ loop = LoopFrame(<<>>, PyDict(<<>>), Emitted(<<>>, ""))
    /\ raised = ""
    /\ heap = <<>>
    /\ threads = <<>>

\* parse, lines 643-651: the next token is pulled and shifted
CompileShift ==
    /\ pc = "compile"
    /\ \E r \in {Resumed} :
        /\ r[2][1] = "yield"
        /\ \E shifted \in {ParseToken(stack, r[2][2])} :
            /\ IsReturn(shifted)
            /\ stack' = shifted[2]
        /\ lexer' = r[1]
        /\ tokens' = Append(tokens, r[2][2])
    /\ UNCHANGED <<heap, threads, text, node, context, output, path, resolver, loop, pc, raised>>

\* parse, lines 643-653: the function that parses the next token raises
CompileReject ==
    /\ pc = "compile"
    /\ \E r \in {Resumed} :
        /\ r[2][1] = "yield"
        /\ \E shifted \in {ParseToken(stack, r[2][2])} :
            /\ IsRaise(shifted)
            /\ raised' = shifted[2]
        /\ lexer' = r[1]
        /\ tokens' = Append(tokens, r[2][2])
    /\ pc' = "failed"
    /\ UNCHANGED <<heap, threads, text, stack, node, context, output, path, resolver, loop>>

\* parse, line 643: pulling the next token raises inside tokenize
CompileLexError ==
    /\ pc = "compile"
    /\ \E r \in {Resumed} :
        /\ IsRaise(r[2])
        /\ lexer' = r[1]
        /\ raised' = r[2][2]
    /\ pc' = "failed"
    /\ UNCHANGED <<heap, threads, text, tokens, stack, node, context, output, path, resolver,
                   loop>>

\* parse, lines 655-658, and Template.__init__: the tokens are exhausted
CompileFinish ==
    /\ pc = "compile"
    /\ \E r \in {Resumed} :
        /\ r[2][1] = "stop"
        /\ lexer' = r[1]
    /\ \E root \in {ParseFinish(stack)} :
        IF IsReturn(root)
        THEN /\ node' = <<root[2]>>
             /\ pc' = "compiled"
             /\ raised' = ""
        ELSE /\ node' = <<>>
             /\ pc' = "failed"
             /\ raised' = root[2]
    /\ UNCHANGED <<heap, threads, text, tokens, stack, context, output, path, resolver, loop>>

\* Template.render(context)
Render ==
    /\ pc = "compiled"
    /\ \E ctx \in RenderContexts :
        /\ context' = ctx
        /\ output' = Emit(node[1], ctx)
    /\ pc' = "rendered"
    /\ raised' = output'.exc
    /\ UNCHANGED <<heap, threads, text, lexer, tokens, stack, node, path, resolver, loop>>

Next == CompileShift \/ CompileReject \/ CompileLexError \/ CompileFinish
        \/ Render

Spec == Init /\ [][Next]_vars

\* ------------------------------------------------------------------------
\* SpecParse: root = parse(tokens) for tokens the caller hands over one at a
\* time, then root.process(context)
\* ------------------------------------------------------------------------

\* the expressions of the guards of if and elif
IfGuards == {S_a}
ElifGuards == {S_b}

\* the token classes at the k-th place of the token list.  A LiteralToken
\* carries the digit of its place as its text.
LiteralTokens(k) == {LiteralToken(<<Digits[k + 1]>>)}
PrintTokens == {NewToken("PrintToken", PrintTag(<<>>, S_a, <<>>))[2]}
StartBlockTokens ==
    {NewToken("StartBlockToken", StartTag(S_if, <<" ">> \o g))[2] : g \in IfGuards}
    \cup {NewToken("StartBlockToken", StartTag(S_elif, <<" ">> \o g))[2] :
             g \in ElifGuards}
    \cup {NewToken("StartBlockToken", StartTag(S_else, <<>>))[2],
          NewToken("StartBlockToken", StartTag(S_loop, <<" ">> \o S_a))[2],
          NewToken("StartBlockToken", StartTag(S_x, <<" ">> \o S_a))[2]}
EndBlockTokens ==
    {NewToken("EndBlockToken", EndTag(f))[2] : f \in {S_if, S_loop, S_elif, S_else, S_x}}

\* the contexts parsed templates are processed with: "a" is an empty or a
\* non-empty string, "b" is 0, 1 or absent
ParseContexts ==
    {PyDict(<< <<PyStr(S_a), PyStr(a)>> >> \o b) :
        a \in {<<>>, <<"x", "y">>},
        b \in {<<>>, << <<PyStr(S_b), PyInt(0)>> >>, << <<PyStr(S_b), PyInt(1)>> >>}}

InitParse ==
    /\ pc = "parse"
    /\ text = <<>>
    /\ lexer = TokenizeStart
    /\ tokens = <<>>
    /\ stack = <<>>
    /\ node = <<>>
    /\ context = PyDict(<<>>)
    /\ output = Emitted(<<>>, "")
    /\ path = <<>>
    /\ resolver = <<<<>>, <<>>>>
    /\ loop = LoopFrame(<<>>, PyDict(<<>>), Emitted(<<>>, ""))
    /\ raised = ""
    /\ heap = <<>>
    /\ threads = <<>>

\* parse, lines 643-653: one turn of the for loop with the next token
Shift(token) ==
    /\ pc = "parse"
    /\ tokens' = Append(tokens, token)
    /\ \E shifted \in {ParseToken(stack, token)} :
        IF IsReturn(shifted)
        THEN /\ stack' = shifted[2]
             /\ pc' = "parse"
             /\ raised' = ""
        ELSE /\ stack' = stack
             /\ pc' = "failed"
             /\ raised' = shifted[2]
    /\ UNCHANGED <<heap, threads, text, lexer, node, context, output, path, resolver, loop>>

\* line 645: the token is a LiteralToken; tokenize never yields two of them
\* in a row
ShiftLiteral ==
    /\ Len(tokens) < MaxTokens
    /\ \A i \in {Len(tokens)} \ {0} : tokens[i].class /= "LiteralToken"
    /\ \E token \in LiteralTokens(Len(tokens)) : Shift(token)

\* line 647: the token is a PrintToken
ShiftPrint ==
    /\ Len(tokens) < MaxTokens
    /\ \E token \in PrintTokens : Shift(token)

\* line 649: the token is a StartBlockToken
ShiftStartBlock ==
    /\ Len(tokens) < MaxTokens
    /\ \E token \in StartBlockTokens : Shift(token)

\* line 651: the token is an EndBlockToken
ShiftEndBlock ==
    /\ Len(tokens) < MaxTokens
    /\ \E token \in EndBlockTokens : Shift(token)

\* lines 655-658: the tokens are exhausted, the root is built and validated
ParseEnd ==
    /\ pc = "parse"
    /\ \E root \in {ParseFinish(stack)} :
        IF IsReturn(root)
        THEN /\ node' = <<root[2]>>
             /\ pc' = "parsed"
             /\ raised' = ""
        ELSE /\ node' = <<>>
             /\ pc' = "failed"
             /\ raised' = root[2]
    /\ UNCHANGED <<heap, threads, text, lexer, tokens, stack, context, output, path, resolver,
                   loop>>

\* root.process(context)
Process ==
    /\ pc = "parsed"
    /\ \E ctx \in ParseContexts :
        /\ context' = ctx
        /\ output' = Emit(node[1], ctx)
    /\ pc' = "rendered"
    /\ raised' = output'.exc
    /\ UNCHANGED <<heap, threads, text, lexer, tokens, stack, node, path, resolver, loop>>

NextParse ==
    ShiftLiteral \/ ShiftPrint \/ ShiftStartBlock \/ ShiftEndBlock \/ ParseEnd
    \/ Process

SpecParse == InitParse /\ [][NextParse]_vars

\* ------------------------------------------------------------------------
\* SpecLoop: the generator LoopNode.emit(context), drained
\* ------------------------------------------------------------------------

\* the keys and the values of the dicts that are looped over
LoopKeys == {PyStr(S_a), PyStr(<<"a", "b">>), PyStr(S_b), PyInt(2), PyInt(10)}

RECURSIVE DictsUpTo(_)
\* the entries of the dicts of at most n keys, in every order of insertion
DictsUpTo(n) ==
    IF n = 0 THEN {<<>>}
    ELSE LET fewer == DictsUpTo(n - 1) IN
         fewer \cup {Append(d, <<k, v>>) :
                        d \in {e \in fewer : Len(e) = n - 1},
                        k \in LoopKeys, v \in Scalars}

\* a dict has each key once
Dicts(n) == {d \in DictsUpTo(n) : \A i, j \in 1..Len(d) : d[i][1] = d[j][1] => i = j}

\* the values "a" is bound to
LoopValues ==
    {PyDict(d) : d \in Dicts(MaxItems)}
    \cup {PyList(l) : l \in SeqsUpTo(Scalars, MaxItems)}
    \cup {PyStr(<<"x", "y">>), PyInt(1)}

\* the contexts of the loop, without and with a variable named item
LoopContexts ==
    {PyDict(<< <<PyStr(S_a), v>> >>) : v \in LoopValues}
    \cup {PyDict(<< <<PyStr(S_item), PyInt(7)>>, <<PyStr(S_a), v>> >>) :
             v \in LoopValues}

\* the bodies of the loop: {{item}}; and {{item.key}}={{item.value}};
ItemBody ==
    << NewToken("PrintToken", PrintTag(<<>>, S_item, <<>>))[2],
       LiteralToken(<<";">>) >>
EntryBody ==
    << NewToken("PrintToken", PrintTag(<<>>, S_item \o <<".">> \o S_key, <<>>))[2],
       LiteralToken(<<"=">>),
       NewToken("PrintToken", PrintTag(<<>>, S_item \o <<".">> \o S_value, <<>>))[2],
       LiteralToken(<<";">>) >>

\* the LoopNode of {% loop a %}body{% /loop %}
LoopOf(body) ==
    parse(<<NewToken("StartBlockToken", StartTag(S_loop, <<" ">> \o S_a))[2]>>
          \o body \o <<NewToken("EndBlockToken", EndTag(S_loop))[2]>>)[2].data[1]

LoopNodes == {LoopOf(ItemBody), LoopOf(EntryBody)}

InitLoop ==
    /\ pc = "loop"
    /\ text = <<>>
    /\ lexer = TokenizeStart
    /\ tokens = <<>>
    /\ stack = <<>>
    /\ node \in {<<n>> : n \in LoopNodes}
    /\ context \in LoopContexts
    /\ output = Emitted(<<>>, "")
    /\ path = <<>>
    /\ resolver = <<<<>>, <<>>>>
    /\ loop = LoopFrame(<<>>, PyDict(<<>>), Emitted(<<>>, ""))
    /\ raised = ""
    /\ heap = <<>>
    /\ threads = <<>>

\* the frame has moved: the generator goes on or an exception leaves it
LoopMoved(f) ==
    /\ loop' = f
    /\ pc' = IF f.emitted.exc = "" THEN "iterate" ELSE "failed"
    /\ raised' = f.emitted.exc
    /\ UNCHANGED <<heap, threads, text, lexer, tokens, stack, node, context, output, path,
                   resolver>>

\* lines 368-371: the first next() of the generator
LoopStart ==
    /\ pc = "loop"
    /\ LoopMoved(LoopEnter(node[1], context))

\* lines 373-374 and 377-378: one turn of the for loop
LoopNext ==
    /\ pc = "iterate"
    /\ loop.items /= <<>>
    /\ LoopMoved(LoopTurn(node[1], loop))

\* the for loop is exhausted and the generator returns
LoopStop ==
    /\ pc = "iterate"
    /\ loop.items = <<>>
    /\ output' = loop.emitted
    /\ pc' = "looped"
    /\ UNCHANGED <<heap, threads, text, lexer, tokens, stack, node, context, path, resolver,
                   loop, raised>>

NextLoop == LoopStart \/ LoopNext \/ LoopStop

SpecLoop == InitLoop /\ [][NextLoop]_vars

\* ------------------------------------------------------------------------
\* curly/template.py: Template(text)
\* ------------------------------------------------------------------------

RECURSIVE Compile(_, _, _)

\* parse, lines 643-653: the token pulled out of the generator was shifted
CompileShifted(s, f, shifted) ==
    IF IsRaise(shifted) THEN shifted ELSE Compile(s, f, shifted[2])

\* parse, line 643: the generator was resumed for the next token
CompileOn(s, r, stk) ==
    IF IsRaise(r[2]) THEN r[2]
    ELSE IF r[2][1] = "stop" THEN ParseFinish(stk)
    ELSE CompileShifted(s, r[1], ParseToken(stk, r[2][2]))

\* parser.parse(lexer.tokenize(text)) from the frame f of the generator and
\* the stack stk on: the root, or the exception raised
Compile(s, f, stk) == CompileOn(s, TokenizeNext(s, f), stk)

\* Template.__init__(text): self.node, or the exception raised
Template(txt) == Compile(txt, TokenizeStart, <<>>)

\* ------------------------------------------------------------------------
\* SpecRender: one Template rendered by several callers, each call of
\* Template.render a thread of its own.  The contexts are dicts on a heap; a
\* step resumes the innermost generator of one thread up to its next yield,
\* call or return, so that the steps of the threads interleave.
\*
\* The values held by a context are never written by emit, so that the
\* shallow copy of a dict is the copy of its value.
\* ------------------------------------------------------------------------

\* the frame of a generator node.emit(context): ctx is the address of its
\* context; line is "emit" (not started), "for" (the for loop of Node.emit
\* before its i-th turn) or "loop" (the for loop of LoopNode.emit, with the
\* values still to visit and the address of context_copy); start is the
\* number of chunks the call of render had yielded when emit was called
Frame(n, ctx, line, items, copy) ==
    [n |-> n, ctx |-> ctx, line |-> line, i |-> 1, items |-> items,
     copy |-> copy, start |-> 0]

\* node.emit(context) is called: Node.emit starts with its for loop
NewFrame(n, ctx) ==
    Frame(n, ctx, IF n.type \in {"RootNode", "ElseNode"} THEN "for" ELSE "emit",
          <<>>, 0)

\* Template.render(context) is entered: "".join(self.node.emit(context)) has
\* its generator.  `given` is the dict as the caller built it, `before` the
\* number of calls that had returned or raised when this one began.
Thread(caller, root, ctx, given, before) ==
    [caller |-> caller, ctx |-> ctx, given |-> given, before |-> before,
     frames |-> <<NewFrame(root, ctx)>>,
     emitted |-> Emitted(<<>>, ""), result |-> <<>>]

Top(th) == th.frames[Len(th.frames)]

\* the innermost generator returns
Popped(th) == [th EXCEPT !.frames = Take(@, Len(@) - 1)]

\* an exception leaves every generator of the thread and reaches join
Thrown(th, exc) == [th EXCEPT !.frames = <<>>, !.emitted.exc = exc]

\* the innermost generator yields what e holds and returns, or raises
Gave(th, e) ==
    IF e.exc /= "" THEN Thrown(th, e.exc)
    ELSE [Popped(th) EXCEPT !.emitted.chunks = @ \o e.chunks]

\* yield from as the last statement: the innermost generator becomes f
Entered(th, f) ==
    [th EXCEPT !.frames[Len(th.frames)] = [f EXCEPT !.start = Top(th).start]]

\* yield from inside a for loop: the generator f is called
Called(th, f) ==
    [th EXCEPT !.frames = Append(@, [f EXCEPT !.start = Len(th.emitted.chunks)])]

\* a faulty copy: context_copy is the context itself
DictCopyAlias(h, a) == <<h, a>>

\* a faulty copy: the context of the first call of render is copied
DictCopyFirst(h, a) == <<Append(h, h[1]), Len(h) + 1>>

\* context.copy(), line 369: the heap with the new dict, and its address
DictCopy(h, a) == <<Append(h, h[a]), Len(h) + 1>>

\* a faulty binding: item is bound in context_copy and in the dict made
\* before it
ItemBoundLeaking(h, copy, item) ==
    [a \in 1..Len(h) |->
        IF a \in {copy - 1, copy} THEN DictSet(h[a], PyStr(S_item), item)
        ELSE h[a]]

\* a faulty binding: item is bound only when context_copy has no item yet
ItemBoundOnce(h, copy, item) ==
    IF PyStr(S_item) \in DictKeys(h[copy]) THEN h
    ELSE [h EXCEPT ![copy] = DictSet(@, PyStr(S_item), item)]

\* a faulty binding: item is bound in every dict there is
ItemBoundEverywhere(h, copy, item) ==
    [a \in 1..Len(h) |-> DictSet(h[a], PyStr(S_item), item)]

\* context_copy["item"] = ..., lines 373 and 377
ItemBound(h, copy, item) ==
    [h EXCEPT ![copy] = DictSet(@, PyStr(S_item), item)]

\* IfNode.emit once the expression is evaluated, lines 335-338
IfStep(th, n, ctx, guard) ==
    IF IsRaise(guard) THEN Thrown(th, guard[2])
    ELSE IF Truthy(guard[2]) THEN Entered(th, Frame(n, ctx, "for", <<>>, 0))
    ELSE IF n.elsenode /= <<>> /\ NodeTruthy(n.elsenode[1])
    THEN Entered(th, NewFrame(n.elsenode[1], ctx))
    ELSE Popped(th)

\* LoopNode.emit, lines 371-376, once the context is copied at `copy`
LoopStep(th, n, ctx, copy, items) ==
    IF IsRaise(items) THEN Thrown(th, items[2])
    ELSE Entered(th, Frame(n, ctx, "loop", items[2], copy))

\* the threads that render the template, each calling render once
Callers == {"main", "worker"}

\* the templates: a loop that prints item and a variable of the context;
\* two nested loops; a loop with no body and a print of item after it; an
\* if with an else
RenderTexts ==
    { StartTag(S_loop, <<" ">> \o S_a) \o PrintTag(<<>>, S_item, <<>>)
          \o PrintTag(<<>>, S_b, <<>>) \o EndTag(S_loop),
      StartTag(S_loop, <<" ">> \o S_a) \o StartTag(S_loop, <<" ">> \o S_item)
          \o PrintTag(<<>>, S_item, <<>>) \o EndTag(S_loop) \o EndTag(S_loop),
      StartTag(S_loop, <<" ">> \o S_a) \o EndTag(S_loop)
          \o PrintTag(<<>>, S_item, <<>>),
      StartTag(S_if, <<" ">> \o S_b) \o <<"1">> \o StartTag(S_else, <<>>)
          \o PrintTag(<<>>, S_a, <<>>) \o EndTag(S_if) }

\* the contexts of the callers: "a" is a list, a dict or not bound, "b" and
\* "item" are bound or not
ThreadContexts ==
    { PyDict(<< <<PyStr(S_a), PyList(<<PyStr(S_x), PyInt(1)>>)>> >>),
      PyDict(<< <<PyStr(S_a), PyDict(<< <<PyStr(S_b), PyInt(1)>>,
                                        <<PyStr(S_a), PyStr(S_x)>> >>)>>,
                <<PyStr(S_b), PyInt(0)>> >>),
      PyDict(<< <<PyStr(S_item), PyInt(7)>>,
                <<PyStr(S_a), PyList(<<PyStr(<<"x", "y">>)>>)>>,
                <<PyStr(S_b), PyInt(1)>> >>),
      PyDict(<<>>) }

\* what the steps of render leave alone
TemplateVars ==
    <<text, lexer, tokens, stack, node, context, output, path, resolver, loop,
      pc, raised>>

InitRender ==
    /\ pc = "compiled"
    /\ text \in RenderTexts
    /\ lexer = TokenizeStart
    /\ tokens = <<>>
    /\ stack = <<>>
    /\ node = <<Template(text)[2]>>
    /\ context = PyDict(<<>>)
    /\ output = Emitted(<<>>, "")
    /\ path = <<>>
    /\ resolver = <<<<>>, <<>>>>
    /\ loop = LoopFrame(<<>>, PyDict(<<>>), Emitted(<<>>, ""))
    /\ raised = ""
    /\ heap = <<>>
    /\ threads = <<>>

\* the number of calls that have returned or raised
Returned == Cardinality({t \in 1..Len(threads) : threads[t].result /= <<>>})

\* a caller builds a dict and calls Template.render with it
RenderCall ==
    /\ \E caller \in Callers \ {threads[t].caller : t \in 1..Len(threads)},
          given \in ThreadContexts :
        /\ heap' = Append(heap, given)
        /\ threads' = Append(threads,
                             Thread(caller, node[1], Len(heap) + 1, given,
                                    Returned))
    /\ UNCHANGED TemplateVars

\* the innermost generator of thread t is at `line` of the emit of a node
\* of one of the types
Resumes(t, line, types) ==
    /\ t \in 1..Len(threads)
    /\ threads[t].frames /= <<>>
    /\ Top(threads[t]).line = line
    /\ Top(threads[t]).n.type \in types

\* LiteralNode.emit, line 217
EmitLiteral(t) ==
    /\ Resumes(t, "emit", {"LiteralNode"})
    /\ threads' = [threads EXCEPT ![t] =
                      Gave(@, Emitted(<<Top(@).n.token.text>>, ""))]
    /\ UNCHANGED <<heap, TemplateVars>>

\* PrintNode.emit, line 242
EmitPrint(t) ==
    /\ Resumes(t, "emit", {"PrintNode"})
    /\ threads' = [threads EXCEPT ![t] =
                      Gave(@, Printed(evaluate_expression(Top(@).n,
                                                          heap[Top(@).ctx])))]
    /\ UNCHANGED <<heap, TemplateVars>>

\* IfNode.emit, lines 335-338
EmitIf(t) ==
    /\ Resumes(t, "emit", {"IfNode"})
    /\ threads' = [threads EXCEPT ![t] =
                      IfStep(@, Top(@).n, Top(@).ctx,
                             evaluate_expression(Top(@).n, heap[Top(@).ctx]))]
    /\ UNCHANGED <<heap, TemplateVars>>

\* LoopNode.emit, line 368, raises: the path does not resolve
EmitLoopRaise(t) ==
    /\ Resumes(t, "emit", {"LoopNode"})
    /\ \E resolved \in {evaluate_expression(Top(threads[t]).n,
                                           heap[Top(threads[t]).ctx])} :
        /\ IsRaise(resolved)
        /\ threads' = [threads EXCEPT ![t] = Thrown(@, resolved[2])]
    /\ UNCHANGED <<heap, TemplateVars>>

\* LoopNode.emit, lines 368-376: the path resolves, the context is copied
\* and the iteration is set up, or raises
EmitLoop(t) ==
    /\ Resumes(t, "emit", {"LoopNode"})
    /\ \E resolved \in {evaluate_expression(Top(threads[t]).n,
                                           heap[Top(threads[t]).ctx])} :
        /\ IsReturn(resolved)
        /\ \E copied \in {DictCopy(heap, Top(threads[t]).ctx)} :
            /\ heap' = copied[1]
            /\ threads' = [threads EXCEPT ![t] =
                              LoopStep(@, Top(@).n, Top(@).ctx, copied[2],
                                       LoopItems(resolved[2]))]
    /\ UNCHANGED TemplateVars

\* LoopNode.emit, lines 373-374 and 377-378: item is bound in context_copy
\* and the body is emitted with it
LoopBind(t) ==
    /\ Resumes(t, "loop", {"LoopNode"})
    /\ Top(threads[t]).items /= <<>>
    /\ heap' = ItemBound(heap, Top(threads[t]).copy, Head(Top(threads[t]).items))
    /\ threads' = [threads EXCEPT ![t] =
                      Called([@ EXCEPT !.frames[Len(@.frames)].items = Tail(@)],
                             Frame(Top(@).n, Top(@).copy, "for", <<>>, 0))]
    /\ UNCHANGED TemplateVars

\* LoopNode.emit: the for loop is exhausted
LoopEnd(t) ==
    /\ Resumes(t, "loop", {"LoopNode"})
    /\ Top(threads[t]).items = <<>>
    /\ threads' = [threads EXCEPT ![t] = Popped(@)]
    /\ UNCHANGED <<heap, TemplateVars>>

\* Node.emit, lines 172-173: the next subnode emits
NodeFor(t) ==
    /\ Resumes(t, "for", {"RootNode", "ElseNode", "IfNode", "LoopNode"})
    /\ Top(threads[t]).i <= Len(Top(threads[t]).n.data)
    /\ threads' = [threads EXCEPT ![t] =
                      Called([@ EXCEPT !.frames[Len(@.frames)].i = @ + 1],
                             NewFrame(Top(@).n.data[Top(@).i], Top(@).ctx))]
    /\ UNCHANGED <<heap, TemplateVars>>

\* Node.emit: the for loop is exhausted
NodeEnd(t) ==
    /\ Resumes(t, "for", {"RootNode", "ElseNode", "IfNode", "LoopNode"})
    /\ Top(threads[t]).i > Len(Top(threads[t]).n.data)
    /\ threads' = [threads EXCEPT ![t] = Popped(@)]
    /\ UNCHANGED <<heap, TemplateVars>>

\* Node.process, line 161, and Template.render, line 43: join has drained
\* the generator, or the exception has reached it
RenderReturn(t) ==
    /\ t \in 1..Len(threads)
    /\ threads[t].frames = <<>>
    /\ threads[t].result = <<>>
    /\ threads' = [threads EXCEPT ![t].result = Joined(threads[t].emitted)]
    /\ UNCHANGED <<heap, TemplateVars>>

NextRender ==
    \/ RenderCall
    \/ \E t \in 1..Cardinality(Callers) :
        \/ EmitLiteral(t) \/ EmitPrint(t) \/ EmitIf(t)
        \/ EmitLoopRaise(t) \/ EmitLoop(t) \/ LoopBind(t) \/ LoopEnd(t)
        \/ NodeFor(t) \/ NodeEnd(t)
        \/ RenderReturn(t)

SpecRender == InitRender /\ [][NextRender]_vars

\* ------------------------------------------------------------------------
\* SpecEmit: one call of Template.render, generator step by generator
\* step, for templates with every type of node
\* ------------------------------------------------------------------------

\* the templates: two nested loops with a print of item in the inner
\* body, after the inner loop and after the outer loop; an if with an
\* elif and an else that read x; an if whose body reads x; an if with an
\* elif that reads x and has no body; a loop whose body reads x
EmitTexts ==
    RenderTexts \cup
    { StartTag(S_loop, <<" ">> \o S_a) \o StartTag(S_loop, <<" ">> \o S_item)
          \o PrintTag(<<>>, S_item, <<>>) \o EndTag(S_loop)
          \o PrintTag(<<>>, S_item, <<>>) \o EndTag(S_loop)
          \o PrintTag(<<>>, S_item, <<>>),
      StartTag(S_if, <<" ">> \o S_a) \o <<"1">>
          \o StartTag(S_elif, <<" ">> \o S_x) \o <<"2">>
          \o StartTag(S_else, <<>>) \o PrintTag(<<>>, S_x, <<>>)
          \o EndTag(S_if),
      StartTag(S_if, <<" ">> \o S_b) \o PrintTag(<<>>, S_x, <<>>)
          \o StartTag(S_else, <<>>) \o <<"3">> \o EndTag(S_if),
      StartTag(S_if, <<" ">> \o S_a) \o <<"1">>
          \o StartTag(S_elif, <<" ">> \o S_x) \o StartTag(S_else, <<>>)
          \o <<"3">> \o EndTag(S_if),
      StartTag(S_loop, <<" ">> \o S_b) \o PrintTag(<<>>, S_x, <<>>)
          \o EndTag(S_loop) \o <<"4">> }

\* the contexts: those of SpecRender; a list of two strings with an empty
\* list; falsy values with x bound to a falsy value or not bound
EmitContexts ==
    ThreadContexts \cup
    { PyDict(<< <<PyStr(S_a), PyList(<<PyStr(<<"x", "y">>), PyStr(<<"z">>)>>)>>,
                <<PyStr(S_b), PyList(<<>>)>> >>),
      PyDict(<< <<PyStr(S_a), PyInt(0)>>, <<PyStr(S_b), PyStr(<<>>)>> >>),
      PyDict(<< <<PyStr(S_a), PyList(<<>>)>>, <<PyStr(S_x), PyInt(0)>>,
                <<PyStr(S_b), PyStr(<<"y">>)>> >>) }

InitEmit ==
    /\ pc = "compiled"
    /\ text \in EmitTexts
    /\ lexer = TokenizeStart
    /\ tokens = <<>>
    /\ stack = <<>>
    /\ node = <<Template(text)[2]>>
    /\ context = PyDict(<<>>)
    /\ output = Emitted(<<>>, "")
    /\ path = <<>>
    /\ resolver = <<<<>>, <<>>>>
    /\ loop = LoopFrame(<<>>, PyDict(<<>>), Emitted(<<>>, ""))
    /\ raised = ""
    /\ heap = <<>>
    /\ threads = <<>>

\* the caller builds a dict and calls Template.render with it
EmitCall ==
    /\ threads = <<>>
    /\ \E given \in EmitContexts :
        /\ heap' = <<given>>
        /\ threads' = <<Thread("main", node[1], 1, given, 0)>>
    /\ UNCHANGED TemplateVars

NextEmit ==
    \/ EmitCall
    \/ EmitLiteral(1) \/ EmitPrint(1) \/ EmitIf(1)
    \/ EmitLoopRaise(1) \/ EmitLoop(1) \/ LoopBind(1) \/ LoopEnd(1)
    \/ NodeFor(1) \/ NodeEnd(1)
    \/ RenderReturn(1)

SpecEmit == InitEmit /\ [][NextEmit]_vars

\* ------------------------------------------------------------------------
\* SpecEntry: curly.render(text, context), the one-shot entry point
\* ------------------------------------------------------------------------

\* the positional parameters of Template.__init__ after self
TemplateInitParams == <<"text">>

\* the instance a call of Template gives, or the exception of __init__
\* without the token it names; then a call Template(*args): Python binds the arguments to the parameters of
\* __init__ before the body runs, and raises TypeError when there are more
\* or fewer positional arguments than parameters
Constructed(made) == IF IsReturn(made) THEN made ELSE Raise(made[2])

TemplateCall(args) ==
    IF Len(args) /= Len(TemplateInitParams)
    THEN Raise("TypeError")
    ELSE Constructed(Template(args[1]))

\* Env.template(text): return template.Template(self, text)
EnvTemplate(self, txt) == TemplateCall(<<self, txt>>)

\* curly.render: return DEFAULT_ENV.template(text).render(context)
render(txt, ctx) ==
    LET made == EnvTemplate("DEFAULT_ENV", txt)
    IN  IF IsRaise(made) THEN made ELSE process(made[2], ctx)

InitEntry ==
    /\ pc = "call"
    /\ text \in Texts
    /\ context \in RenderContexts
    /\ lexer = TokenizeStart
    /\ tokens = <<>>
    /\ stack = <<>>
    /\ node = <<>>
    /\ output = Emitted(<<>>, "")
    /\ path = <<>>
    /\ resolver = <<<<>>, <<>>>>
    /\ loop = LoopFrame(<<>>, PyDict(<<>>), Emitted(<<>>, ""))
    /\ raised = ""
    /\ heap = <<>>
    /\ threads = <<>>

\* the caller calls curly.render(text, context) and gets a string or an
\* exception
RenderEntry ==
    /\ pc = "call"
    /\ \E r \in {render(text, context)} :
        IF IsReturn(r)
        THEN /\ output' = Emitted(<<r[2]>>, "")
             /\ raised' = ""
             /\ pc' = "rendered"
        ELSE /\ output' = output
             /\ raised' = r[2]
             /\ pc' = "failed"
    /\ UNCHANGED <<heap, threads, text, lexer, tokens, stack, node, context, path,
                   resolver, loop>>

NextEntry == RenderEntry

SpecEntry == InitEntry /\ [][NextEntry]_vars

\* ------------------------------------------------------------------------
\* Properties of conditionals (SpecParse)
\*
\* A conditional is read off the token list, independently of the nodes
\* parse builds: the list is one if ... /if whose branches hold only
\* literal and print tokens.
\* ------------------------------------------------------------------------

IsStart(t, function) == t.class = "StartBlockToken" /\ t.function = function
IsPlain(t) == t.class \in {"LiteralToken", "PrintToken"}

FlatChain ==
    /\ Len(tokens) >= 2
    /\ IsStart(tokens[1], S_if)
    /\ tokens[Len(tokens)].class = "EndBlockToken"
    /\ \A i \in 2..(Len(tokens) - 1) :
         IsPlain(tokens[i]) \/ IsStart(tokens[i], S_elif) \/ IsStart(tokens[i], S_else)

\* the places of the tokens that open a branch
BranchHeads == {i \in 1..(Len(tokens) - 1) : ~IsPlain(tokens[i])}

\* the number of tokens of the body of the branch opened at place i
BodyLen(i) ==
    CHOOSE n \in 0..Len(tokens) :
        /\ i + n + 1 <= Len(tokens)
        /\ ~IsPlain(tokens[i + n + 1])
        /\ \A k \in 1..n : IsPlain(tokens[i + k])

\* what a literal or print token of a body stands for in the context
Written(t) ==
    IF t.class = "LiteralToken" THEN t.data
    ELSE Val(DictGet(context, PyStr(t.expression[1])))

\* the body of the branch opened at place i, rendered
BodyText(i) == Concat([k \in 1..BodyLen(i) |-> Written(tokens[i + k])])

\* the guard of the branch opened at place i is written in the context
GuardResolves(i) ==
    IsStart(tokens[i], S_else) \/ PyStr(tokens[i].expression[1]) \in DictKeys(context)

\* the values of the contexts that are false
Falsy == {PyStr(<<>>), PyInt(0)}

\* the branch opened at place i is an else, or its guard is true
GuardHolds(i) ==
    IF IsStart(tokens[i], S_else) THEN TRUE
    ELSE DictGet(context, PyStr(tokens[i].expression[1])) \notin Falsy

\* the first branch, in source order, that is an else or whose guard is true
FirstTaken ==
    {i \in BranchHeads : GuardHolds(i) /\ \A j \in BranchHeads : j < i => ~GuardHolds(j)}

ExpectedOfChain ==
    IF FirstTaken = {} THEN <<>> ELSE BodyText(CHOOSE i \in FirstTaken : TRUE)

\* C1: a parsed if/elif/else chain, empty bodies included, rendered in a
\* context that resolves its guards, emits exactly the body of the first
\* branch whose guard is true, the body of the else branch if there is one
\* and no guard is true, and nothing otherwise.
C1_FirstTruthyBranch ==
    (pc = "rendered" /\ FlatChain /\ \A i \in BranchHeads : GuardResolves(i))
        => /\ output.exc = ""
           /\ Concat(output.chunks) = ExpectedOfChain

\* C10: the output of a parsed if/elif/else chain is empty or the rendering
\* of exactly one of its branch bodies, in every context.
C10_AtMostOneBranch ==
    (pc = "rendered" /\ FlatChain)
        => Concat(output.chunks) \in {<<>>} \cup {BodyText(i) : i \in BranchHeads}

\* an if with an else, both bodies written, rendered as the else body
C10_Witness ==
    /\ pc = "rendered"
    /\ FlatChain
    /\ output.exc = ""
    /\ Len(tokens) = 5
    /\ IsStart(tokens[3], S_else)
    /\ BodyText(1) /= <<>>
    /\ BodyText(3) /= <<>>
    /\ Concat(output.chunks) = BodyText(3)

\* ------------------------------------------------------------------------
\* Properties of rendered texts (Spec)
\* ------------------------------------------------------------------------

AllLiteral == \A i \in 1..Len(tokens) : tokens[i].class = "LiteralToken"

\* no backslash of s is followed by a character
NoEscape(s) == \A i \in 1..(Len(s) - 1) : s[i] /= BS

PathOfPrint(t) == SelectSeq(SubSeq(t, 3, Len(t) - 2), LAMBDA c : c \notin Whitespace)

\* the direct lookup of a name: a key of a dict, or for an all-digit name
\* the number as a key of a dict or as an index of a list or a string.
\* The result is <<TRUE, value>> or <<FALSE>>.
Lookup(name, c) ==
    LET digits == name /= <<>> /\ \A i \in 1..Len(name) : name[i] \in DigitSet
        n == ParseInt(name)
    IN  IF Tag(c) = "dict" /\ PyStr(name) \in DictKeys(c)
        THEN <<TRUE, DictGet(c, PyStr(name))>>
        ELSE IF ~digits THEN <<FALSE>>
        ELSE IF Tag(c) = "dict" /\ PyInt(n) \in DictKeys(c)
        THEN <<TRUE, DictGet(c, PyInt(n))>>
        ELSE IF Tag(c) = "list" /\ n < Len(Val(c)) THEN <<TRUE, Val(c)[n + 1]>>
        ELSE IF Tag(c) = "str" /\ n < Len(Val(c))
        THEN <<TRUE, PyStr(<<Val(c)[n + 1]>>)>>
        ELSE <<FALSE>>

RECURSIVE Resolved(_, _)
\* the value of a path in a context: the direct lookup if it succeeds, else
\* the part after the first '.' resolved in the value of the part before it
Resolved(p, c) ==
    LET direct == Lookup(p, c)
        dots == {i \in 1..Len(p) : p[i] = "."}
        dot == CHOOSE i \in dots : \A j \in dots : i <= j
        head == Resolved(SubSeq(p, 1, dot - 1), c)
    IN  IF direct[1] THEN direct
        ELSE IF dots = {} THEN <<FALSE>>
        ELSE IF ~head[1] THEN <<FALSE>>
        ELSE Resolved(SubSeq(p, dot + 1, Len(p)), head[2])

\* C7: a print tag {{ p }} emits the string form of the value p resolves to,
\* whatever whitespace stands between the braces and p, and its evaluation
\* fails if p cannot be resolved.
C7_PrintTag ==
    (pc = "rendered" /\ text \in PrintTexts)
        => IF Resolved(PathOfPrint(text), context)[1]
           THEN output = Emitted(<<Str(Resolved(PathOfPrint(text), context)[2])>>, "")
           ELSE output.chunks = <<>> /\ output.exc /= ""

\* a print tag with a newline before and two spaces after a path of two
\* segments, rendered as a string of the context
C7_Witness ==
    /\ pc = "rendered"
    /\ text = PrintTag(<<NL>>, <<"b", ".", "1">>, <<" ", " ">>)
    /\ output = Emitted(<< <<"x", "y">> >>, "")

\* s[i] is a backslash that escapes the character after it: it is followed
\* by a character and an even number of backslashes stands right before it
Escapes(s, i) ==
    /\ s[i] = BS
    /\ i < Len(s)
    /\ Cardinality({k \in 1..(i - 1) : \A j \in k..(i - 1) : s[j] = BS}) % 2 = 0

RECURSIVE CollapsedFrom(_, _)
\* s from its i-th character on, without the backslashes that escape
CollapsedFrom(s, i) ==
    IF i > Len(s) THEN <<>>
    ELSE (IF Escapes(s, i) THEN <<>> ELSE <<s[i]>>) \o CollapsedFrom(s, i + 1)

\* C8: in the rendering of a text of literal and print tokens, each literal
\* token is written with every backslash that is followed by a character X
\* collapsed to X, from left to right, and every other character unchanged.
C8_BackslashCollapses ==
    (pc = "rendered" /\ raised = "" /\ \A i \in 1..Len(tokens) : IsPlain(tokens[i]))
        => /\ Len(output.chunks) = Len(tokens)
           /\ \A i \in 1..Len(tokens) :
                tokens[i].class = "LiteralToken"
                    => output.chunks[i] = CollapsedFrom(tokens[i].data, 1)

\* \{\{ is rendered as {{
C8_Witness ==
    /\ pc = "rendered"
    /\ text = <<BS, "{", BS, "{">>
    /\ output = Emitted(<< <<"{", "{">> >>, "")

\* ------------------------------------------------------------------------
\* Properties of tokenize (SpecTokenize)
\* ------------------------------------------------------------------------

\* C3: iterating tokenize(text) to its end never raises.
C3_TokenizeTotal == pc /= "failed"

\* the raw strings of the tokens yielded so far, laid end to end
Raws == Concat([i \in 1..Len(tokens) |-> tokens[i].data])

\* C9: the raw strings of the tokens, in the order they are yielded, lie
\* end to end from the start of the text without gap or overlap, none of
\* them is empty, and once tokenize has completed they make up the text.
C9_RoundTrip ==
    /\ Len(Raws) <= Len(text)
    /\ Raws = Take(text, Len(Raws))
    /\ \A i \in 1..Len(tokens) : tokens[i].data /= <<>>
    /\ pc = "exhausted" => Raws = text

\* a literal, a tag and a literal again
C9_Witness ==
    /\ pc = "exhausted"
    /\ Len(tokens) = 3
    /\ tokens[1].class = "LiteralToken"
    /\ tokens[2].class = "PrintToken"
    /\ tokens[3].class = "LiteralToken"
    /\ Raws = text

\* ------------------------------------------------------------------------
\* Properties of resolve_variable (SpecResolve)
\* ------------------------------------------------------------------------

\* C5: for a path with a '.' that is itself a key of the context,
\* resolve_variable returns the value of that key.
C5_LiteralKeyFirst ==
    (pc = "resolved" /\ "." \in {path[i] : i \in 1..Len(path)}
                     /\ PyStr(path) \in DictKeys(context))
        => resolver[2] = Return(DictGet(context, PyStr(path)))

\* "a.b" is a key and "a" holds a dict with another value under "b"
C5_Witness ==
    /\ pc = "resolved"
    /\ path = <<"a", ".", "b">>
    /\ PyStr(path) \in DictKeys(context)
    /\ PyStr(S_a) \in DictKeys(context)
    /\ DictGet(context, PyStr(S_a)) = PyDict(<< <<PyStr(S_b), PyInt(1)>> >>)
    /\ DictGet(context, PyStr(path)) = PyStr(S_x)
    /\ resolver[2] = Return(PyStr(S_x))

\* C6: when the direct lookup of the path fails, resolve_variable gives what
\* the part after the first '.' resolves to in the value of the part before
\* it, an all-digit segment being an index; it raises when there is no '.'
\* or when one of the two parts cannot be resolved.
C6_SplitAtFirstDot ==
    (pc = "resolved" /\ ~Lookup(path, context)[1])
        => IF Resolved(path, context)[1]
           THEN resolver[2] = Return(Resolved(path, context)[2])
           ELSE IsRaise(resolver[2])

\* a.b.0 is resolved through a dict and a list while "a.b" is a key too
C6_Witness ==
    /\ pc = "resolved"
    /\ path = <<"a", ".", "b", ".", "0">>
    /\ PyStr(<<"a", ".", "b">>) \in DictKeys(context)
    /\ PyStr(S_a) \in DictKeys(context)
    /\ DictGet(context, PyStr(S_a)) = PyDict(<< <<PyStr(S_b), PyList(<<PyStr(S_x)>>)>> >>)
    /\ resolver[2] = Return(PyStr(S_x))

\* ------------------------------------------------------------------------
\* Properties of loops (SpecLoop)
\* ------------------------------------------------------------------------

\* the keys of the looped dicts in ascending order: the numbers by value,
\* the strings by their characters
RankedKeys == <<PyInt(2), PyInt(10), PyStr(S_a), PyStr(<<"a", "b">>), PyStr(S_b)>>

RECURSIVE InRankOrder(_, _)
\* the keys of the dict v from the i-th rank on
InRankOrder(v, i) ==
    IF i > Len(RankedKeys) THEN <<>>
    ELSE (IF RankedKeys[i] \in DictKeys(v) THEN <<RankedKeys[i]>> ELSE <<>>)
         \o InRankOrder(v, i + 1)

\* the value that is looped over
Looped == DictGet(context, PyStr(S_a))

\* the elements of the looped value in their natural order
Elements ==
    IF Tag(Looped) = "str"
    THEN [i \in 1..Len(Val(Looped)) |-> PyStr(<<Val(Looped)[i]>>)]
    ELSE Val(Looped)

\* C4: a loop renders its body once for each element of the resolved value
\* and concatenates the results: the entries of a mapping in ascending
\* order of their keys, however they were inserted, with item bound to
\* {key, value}; the elements of a sequence in their order, with item bound
\* to the element.
C4_LoopOrder ==
    pc = "looped"
        => /\ (Tag(Looped) = "dict" /\ node[1] = LoopOf(EntryBody))
                => /\ Len(output.chunks) = 4 * Len(Val(Looped))
                   /\ Concat(output.chunks) =
                        Concat([i \in 1..Len(Val(Looped)) |->
                            Str(InRankOrder(Looped, 1)[i]) \o <<"=">>
                            \o Str(DictGet(Looped, InRankOrder(Looped, 1)[i]))
                            \o <<";">>])
           /\ (Tag(Looped) \in {"list", "str"} /\ node[1] = LoopOf(ItemBody))
                => /\ Len(output.chunks) = 2 * Len(Elements)
                   /\ Concat(output.chunks) =
                        Concat([i \in 1..Len(Elements) |-> Str(Elements[i]) \o <<";">>])

\* a dict with "b" inserted before "a" is rendered with "a" first
C4_Witness ==
    /\ pc = "looped"
    /\ node[1] = LoopOf(EntryBody)
    /\ Looped = PyDict(<< <<PyStr(S_b), PyInt(1)>>, <<PyStr(S_a), PyStr(S_x)>> >>)
    /\ Concat(output.chunks) = <<"a", "=", "x", ";", "b", "=", "1", ";">>

\* ------------------------------------------------------------------------
\* The blocks a token list leaves open, read off the tokens alone: an if or
\* a loop tag opens a block, an elif or else tag turns the innermost branch
\* into the next one, an end tag closes the innermost block.  `head` is the
\* place of the tag that opened the block, `at` the place of the tag that
\* opened its current branch.
\* ------------------------------------------------------------------------

IsEnd(t, function) == t.class = "EndBlockToken" /\ t.function = function

OpenAfter(open, t, k) ==
    IF t.class = "StartBlockToken" /\ t.function \in {S_if, S_loop}
    THEN Append(open, [kind |-> t.function, head |-> k, at |-> k])
    ELSE IF t.class = "StartBlockToken" /\ t.function \in {S_elif, S_else}
            /\ open /= <<>>
    THEN [open EXCEPT ![Len(open)] = [kind |-> t.function, head |-> @.head, at |-> k]]
    ELSE IF t.class = "EndBlockToken" /\ open /= <<>>
    THEN Take(open, Len(open) - 1)
    ELSE open

RECURSIVE OpenBlocks(_, _)
\* the blocks open after the first k tokens
OpenBlocks(toks, k) ==
    IF k = 0 THEN <<>> ELSE OpenAfter(OpenBlocks(toks, k - 1), toks[k], k)

\* the kind of the innermost open block, <<>> if no block is open
TopKind(open) == IF open = <<>> THEN <<>> ELSE open[Len(open)].kind

\* the place of the tag that opened the outermost open block
FirstHead(open) == open[1].head

RECURSIVE ElseLast(_)
\* in every conditional of the tree only the last branch may be an else
ElseLast(n) ==
    /\ n.type = "ConditionalNode"
         => \A i \in 1..(Len(n.data) - 1) : n.data[i].type = "IfNode"
    /\ \A i \in 1..Len(n.data) : ElseLast(n.data[i])

\* C11: parse fails on an elif tag or an else tag that follows the else tag
\* of the same chain, so that a parsed chain has at most one else branch and
\* has it last.
C11_ElseIsLast ==
    /\ \A k \in 1..Len(tokens) :
         ( /\ IsStart(tokens[k], S_elif) \/ IsStart(tokens[k], S_else)
           /\ TopKind(OpenBlocks(tokens, k - 1)) = S_else )
             => pc = "failed"
    /\ pc \in {"parsed", "rendered"} => ElseLast(node[1])

\* if ... else ... elif: the elif tag is refused
C11_Witness ==
    /\ pc = "failed"
    /\ raised = "CurlyParserUnexpectedUnfinishedNodeError"
    /\ Len(tokens) >= 3
    /\ IsStart(tokens[1], S_if)
    /\ IsStart(tokens[Len(tokens)], S_elif)
    /\ TopKind(OpenBlocks(tokens, Len(tokens) - 1)) = S_else

\* the tags `{% one %} {% /another %}` with two different names out of
\* loop, if, elif and else, and literal text around them
MixedPair ==
    \E i \in 1..Len(tokens) :
        /\ i < Len(tokens)
        /\ \E one \in {S_loop, S_if, S_elif, S_else} :
             /\ IsStart(tokens[i], one)
             /\ \E another \in {S_loop, S_if, S_elif, S_else} \ {one} :
                  IsEnd(tokens[Len(tokens)], another)
        /\ \A j \in 1..(Len(tokens) - 1) :
             j /= i => tokens[j].class = "LiteralToken"

\* C12: an end tag that does not match the innermost open block (/loop in a
\* branch of an if, /if in a loop) is refused with the error of the
\* unexpected unfinished node, and `{% one %} {% /another %}` is refused for
\* every two different names out of loop, if, elif and else.
C12_MismatchedEnd ==
    /\ \A k \in 1..Len(tokens) :
         ( \/ /\ IsEnd(tokens[k], S_loop)
              /\ TopKind(OpenBlocks(tokens, k - 1)) \in {S_if, S_elif, S_else}
           \/ /\ IsEnd(tokens[k], S_if)
              /\ TopKind(OpenBlocks(tokens, k - 1)) = S_loop )
             => /\ pc = "failed"
                /\ raised = "CurlyParserUnexpectedUnfinishedNodeError"
    /\ MixedPair => pc = "failed"

\* if ... elif ... /loop: the branch of the elif is the innermost open block
C12_Witness ==
    /\ pc = "failed"
    /\ raised = "CurlyParserUnexpectedUnfinishedNodeError"
    /\ IsEnd(tokens[Len(tokens)], S_loop)
    /\ TopKind(OpenBlocks(tokens, Len(tokens) - 1)) = S_elif

\* the step of parse that follows the last token
Consumed == pc = "parse" /\ pc' /= "parse" /\ tokens' = tokens

\* C13: a start tag that is never closed makes parse fail; when the tokens
\* are consumed with a block still open, parse fails with the error of the
\* node that is not done, which names the tag that opened the block.
C13_UnclosedStart ==
    /\ [](pc \in {"parsed", "rendered"} => OpenBlocks(tokens, Len(tokens)) = <<>>)
    /\ [](\A k \in 1..Len(tokens) :
            ( /\ IsStart(tokens[k], S_elif) \/ IsStart(tokens[k], S_else)
              /\ TopKind(OpenBlocks(tokens, k - 1)) \notin {S_if, S_elif} )
                => pc = "failed")
    /\ [][(Consumed /\ OpenBlocks(tokens, Len(tokens)) /= <<>>)
            => /\ pc' = "failed"
               /\ raised' = "CurlyParserFoundNotDoneError"
               /\ ParseFinish(stack)[3]
                    = tokens[FirstHead(OpenBlocks(tokens, Len(tokens)))]]_vars

\* if ... elif with no /if: the error names the if tag
C13_Witness ==
    /\ pc = "failed"
    /\ raised = "CurlyParserFoundNotDoneError"
    /\ Len(tokens) >= 2
    /\ IsStart(tokens[Len(tokens)], S_elif)
    /\ TopKind(OpenBlocks(tokens, Len(tokens))) = S_elif
    /\ ParseFinish(stack)[3] = tokens[1]

\* C14: /loop and /if with no block open are refused with the error of the
\* missing unfinished node; /elif and /else are always refused.
C14_UnmatchedEnd ==
    \A k \in 1..Len(tokens) :
        /\ ( /\ IsEnd(tokens[k], S_loop) \/ IsEnd(tokens[k], S_if)
             /\ OpenBlocks(tokens, k - 1) = <<>> )
               => /\ pc = "failed"
                  /\ raised = "CurlyParserNoUnfinishedNodeError"
        /\ (IsEnd(tokens[k], S_elif) \/ IsEnd(tokens[k], S_else))
               => pc = "failed"

\* if ... /if /if: the second /if finds no block open
C14_Witness ==
    /\ pc = "failed"
    /\ raised = "CurlyParserNoUnfinishedNodeError"
    /\ Len(tokens) >= 3
    /\ IsStart(tokens[1], S_if)
    /\ IsEnd(tokens[Len(tokens)], S_if)
    /\ OpenBlocks(tokens, Len(tokens) - 1) = <<>>

\* C15: a start tag whose function is not if, elif, else or loop is refused
\* with the error of the unknown start block, an end tag whose function is
\* not if or loop with the error of the unknown end block, whatever the
\* stack holds.
C15_UnknownFunction ==
    \A k \in 1..Len(tokens) :
        /\ ( /\ tokens[k].class = "StartBlockToken"
             /\ tokens[k].function \notin {S_if, S_elif, S_else, S_loop} )
               => /\ pc = "failed"
                  /\ raised = "CurlyParserUnknownStartBlockError"
        /\ ( /\ tokens[k].class = "EndBlockToken"
             /\ tokens[k].function \notin {S_if, S_loop} )
               => /\ pc = "failed"
                  /\ raised = "CurlyParserUnknownEndBlockError"

\* an unknown start tag inside a loop that is open
C15_Witness ==
    /\ pc = "failed"
    /\ raised = "CurlyParserUnknownStartBlockError"
    /\ IsStart(tokens[Len(tokens)], S_x)
    /\ TopKind(OpenBlocks(tokens, Len(tokens) - 1)) = S_loop

\* ------------------------------------------------------------------------
\* Properties of render (SpecRender)
\*
\* What a call of render gives when it runs alone is the generator of the
\* root drained in one go on the dict as the caller built it.
\* ------------------------------------------------------------------------

IsPrefix(s, t) == Len(s) <= Len(t) /\ SubSeq(t, 1, Len(s)) = s

Alone(th) == Emit(node[1], th.given)

\* the calls that have returned or raised
Finished == {t \in 1..Len(threads) : threads[t].result /= <<>>}

\* C16: a render in which a path does not resolve raises and returns no
\* string; a render returns its complete output or raises, never a prefix
\* of the output.
C16_FailWhole ==
    \A t \in Finished :
        IF Alone(threads[t]).exc /= ""
        THEN threads[t].result = Raise(Alone(threads[t]).exc)
        ELSE threads[t].result = Return(Concat(Alone(threads[t]).chunks))

\* chunks had been yielded when the exception was raised
C16_Witness ==
    \E t \in Finished :
        /\ threads[t].emitted.chunks /= <<>>
        /\ threads[t].emitted.exc = "ValueError"
        /\ IsRaise(threads[t].result)

\* C17: when render has returned or raised, the dict of the caller holds the
\* keys and values it held before the call; no item is added or changed.
C17_ContextUntouched ==
    \A t \in Finished : heap[threads[t].ctx] = threads[t].given

\* two nested loops have bound item in their copies, the caller has none
C17_Witness ==
    /\ Len(threads) = 1
    /\ Finished = {1}
    /\ IsReturn(threads[1].result)
    /\ Len(heap) >= 3
    /\ PyStr(S_item) \notin DictKeys(heap[1])
    /\ \A a \in 2..Len(heap) : PyStr(S_item) \in DictKeys(heap[a])

\* C18: whatever was rendered before, the node of the template is the node
\* a fresh Template of the same text has, and a render gives what the fresh
\* template gives for the same context.
C18_CompileOnce ==
    /\ node = <<Template(text)[2]>>
    /\ \A t \in Finished :
         threads[t].result = process(node[1], threads[t].given)

\* a render that failed, then a render of another context that returned
C18_Witness ==
    /\ Len(threads) = 2
    /\ Finished = {1, 2}
    /\ IsRaise(threads[1].result)
    /\ threads[2].before = 1
    /\ IsReturn(threads[2].result)
    /\ threads[2].result[2] /= <<>>
    /\ Len(heap) >= 4

\* C19: in every interleaving each render yields the chunks it yields when
\* it runs alone, and returns or raises as it does alone.
C19_Concurrent ==
    \A t \in 1..Len(threads) :
        /\ IsPrefix(threads[t].emitted.chunks, Alone(threads[t]).chunks)
        /\ t \in Finished => threads[t].result = process(node[1], threads[t].given)

\* two renders are in the body of their loops at once, each with its item
C19_Witness ==
    /\ Len(threads) = 2
    /\ \A t \in 1..2 :
         /\ Resumes(t, "emit", {"PrintNode"})
         /\ Top(threads[t]).ctx /= threads[t].ctx
         /\ threads[t].emitted.chunks /= <<>>
    /\ DictGet(heap[Top(threads[1]).ctx], PyStr(S_item))
         /= DictGet(heap[Top(threads[2]).ctx], PyStr(S_item))

\* ------------------------------------------------------------------------
\* Properties of the entry point (SpecEntry)
\* ------------------------------------------------------------------------

\* Template(text).render(context), called by hand
TemplateRender(txt, ctx) ==
    LET made == TemplateCall(<<txt>>)
    IN  IF IsRaise(made) THEN made ELSE process(made[2], ctx)

\* C20: curly.render(text, context) returns the string that
\* Template(text).render(context) returns, and raises exactly when
\* tokenizing, parsing or evaluating the text raises.
C20_RenderIsTemplateRender ==
    pc /= "call" =>
        \E direct \in {TemplateRender(text, context)} :
            IF IsReturn(direct)
            THEN pc = "rendered" /\ Concat(output.chunks) = direct[2]
            ELSE pc = "failed" /\ raised = direct[2]

\* ------------------------------------------------------------------------
\* Properties of the errors of Template (Spec)
\* ------------------------------------------------------------------------

\* ValueError and the classes of curly/exceptions.py, which all derive from
\* CurlyError(ValueError)
ValueErrors ==
    { "ValueError", "CurlyError", "CurlyEvaluateError", "CurlyLexerError",
      "CurlyParserError", "CurlyLexerStringDoesNotMatchError",
      "CurlyEvaluateNoKeyError", "CurlyParserUnknownTokenError",
      "CurlyParserUnknownStartBlockError", "CurlyParserUnknownEndBlockError",
      "CurlyParserFoundNotDoneError", "CurlyParserNoUnfinishedNodeError",
      "CurlyParserUnexpectedUnfinishedNodeError" }

\* C21: whenever Template(text) or Template.render(context) raises, the
\* exception is a ValueError.
C21_OnlyValueError ==
    raised /= "" => raised \in ValueErrors

\* ------------------------------------------------------------------------
\* Properties of process and emit (SpecEmit)
\*
\* The generators of SpecEmit yield chunk by chunk; Emit is the same emit
\* drained in one step.
\* ------------------------------------------------------------------------

\* the chunks the call th has yielded since the generator f was called
Since(th, f) == SubSeq(th.emitted.chunks, f.start + 1, Len(th.emitted.chunks))

\* what the generator f yields in all: super().emit of an IfNode or of a
\* LoopNode is Node.emit, every other frame is the emit of its node
Whole(f) ==
    IF f.line = "for" /\ f.n.type \in {"IfNode", "LoopNode"}
    THEN NodeEmit(f.n, heap[f.ctx], 1)
    ELSE Emit(f.n, heap[f.ctx])

\* the generators of call t that have returned or raised in this step
Left(t) == (Len(threads'[t].frames) + 1)..Len(threads[t].frames)

Drained(t, f) ==
    /\ Since(threads'[t], f) = Whole(f).chunks
    /\ threads'[t].emitted.exc = Whole(f).exc

\* C22: for a node of any type, what a generator emit(context) has yielded
\* when it returns or raises is what emit yields for the node and the
\* context, and it raises exactly when that emit raises; before that it
\* has yielded a prefix; process returns the chunks joined, in order, or
\* raises the exception of emit.
C22_ProcessJoinsEmit ==
    /\ [](\A t \in 1..Len(threads) :
            /\ \A k \in 1..Len(threads[t].frames) :
                 IsPrefix(Since(threads[t], threads[t].frames[k]),
                          Whole(threads[t].frames[k]).chunks)
            /\ t \in Finished =>
                 /\ threads[t].emitted = Emit(node[1], heap[threads[t].ctx])
                 /\ threads[t].result =
                      IF threads[t].emitted.exc /= ""
                      THEN Raise(threads[t].emitted.exc)
                      ELSE Return(Concat(threads[t].emitted.chunks)))
    /\ [][\A t \in 1..Len(threads) :
            \A k \in Left(t) : Drained(t, threads[t].frames[k])]_vars

\* a loop has emitted two chunks for its two items, and process has
\* returned them joined
C22_Witness ==
    \E t \in Finished :
        /\ IsReturn(threads[t].result)
        /\ Len(threads[t].emitted.chunks) >= 2
        /\ \E n \in {node[1].data[1]} : n.type = "LoopNode"

\* ------------------------------------------------------------------------
\* Properties of the loop (SpecEmit)
\* ------------------------------------------------------------------------

\* the values the loop of frame f iterates over
AllItems(f) == LoopItems(evaluate_expression(f.n, heap[f.ctx])[2])[2]

\* the turn the loop of frame f is in: the values visited so far
Turn(f) == Len(AllItems(f)) - Len(f.items)

\* the loops of call t whose body is being emitted
InBody(t) ==
    {k \in 1..(Len(threads[t].frames) - 1) : threads[t].frames[k].line = "loop"}

RECURSIVE AllDone(_)
\* the node, its subnodes at any depth and the branches linked to it by
\* elsenode are done
AllDone(n) ==
    /\ n.done
    /\ \A i \in 1..Len(n.data) : AllDone(n.data[i])
    /\ \A i \in 1..Len(n.elsenode) : AllDone(n.elsenode[i])

\* C24: when parse has returned, every node of the tree is done: the
\* subnodes of the root, the nodes of every body at any depth and the
\* branches of every chain of elif and else.
C24_AllNodesDone ==
    pc \in {"parsed", "rendered"} => AllDone(node[1])

\* the tree has an if with an elif and an else whose body holds a loop
C24_Witness ==
    /\ pc = "parsed"
    /\ \E i \in 1..Len(node[1].data) :
        \E n \in {node[1].data[i]} :
            /\ n.type = "IfNode"
            /\ n.elsenode /= <<>>
            /\ n.elsenode[1].elsenode /= <<>>
            /\ \E j \in 1..Len(n.elsenode[1].elsenode[1].data) :
                 n.elsenode[1].elsenode[1].data[j].type = "LoopNode"

\* ------------------------------------------------------------------------
\* The tree of a token list, read off the list by recursive descent
\* (SpecParse), independently of the stack of parse
\* ------------------------------------------------------------------------

Built(n, data, elsenode) ==
    [n EXCEPT !.done = TRUE, !.data = data, !.elsenode = elsenode]

\* <<nodes, j>> with a node put in front of the nodes
Cons(n, read) == <<<<n>> \o read[1], read[2]>>

IsBranchStart(toks, j) ==
    /\ j <= Len(toks)
    /\ toks[j].class = "StartBlockToken"
    /\ toks[j].function \in {S_elif, S_else}

RECURSIVE Items(_, _)
RECURSIVE Branches(_, _)

\* the loop whose start tag is t and whose body was read up to its end tag
LoopRead(toks, t, body) ==
    Cons(Built(LoopNode(t), body[1], <<>>), Items(toks, body[2] + 1))

\* the conditional whose chain was read up to its end tag
ChainRead(toks, chain) == Cons(chain[1], Items(toks, chain[2] + 1))

\* the branch whose start tag is t, with its body and the rest of the chain
BranchLinked(t, body, rest) ==
    << Built(IF t.function = S_else THEN ElseNode(t) ELSE IfNode(t),
             body[1], <<rest[1]>>),
       rest[2] >>

\* the branch whose start tag is t and whose body was read up to the tag j
BranchRead(toks, t, body) ==
    IF IsBranchStart(toks, body[2])
    THEN BranchLinked(t, body, Branches(toks, body[2]))
    ELSE << Built(IF t.function = S_else THEN ElseNode(t) ELSE IfNode(t),
                  body[1], <<>>),
            body[2] >>

\* <<node, j>>: the branch that starts at token i, linked to the branches
\* after it, and the place j of the end tag of the chain
Branches(toks, i) == BranchRead(toks, toks[i], Items(toks, i + 1))

\* <<nodes, j>>: the nodes of the tokens from the i-th on, up to the first
\* tag j that does not start a node (an elif, an else, an end tag) or to
\* the end of the list
Items(toks, i) ==
    IF i > Len(toks) THEN <<<<>>, i>>
    ELSE CASE toks[i].class = "LiteralToken" ->
                Cons(LiteralNode(toks[i]), Items(toks, i + 1))
           [] toks[i].class = "PrintToken" ->
                Cons(PrintNode(toks[i]), Items(toks, i + 1))
           [] toks[i].class = "StartBlockToken" /\ toks[i].function = S_loop ->
                LoopRead(toks, toks[i], Items(toks, i + 1))
           [] toks[i].class = "StartBlockToken" /\ toks[i].function = S_if ->
                ChainRead(toks, Branches(toks, i))
           [] OTHER -> <<<<>>, i>>

\* C25: when parse has returned, the subnodes of the root are the nodes of
\* the top-level tokens in the order of the source; the body of a loop and
\* of each branch is the nodes of the tokens up to the next tag of its own
\* chain; the branches of a chain are linked in the order of the source.
C25_TreeMirrorsSource ==
    pc \in {"parsed", "rendered"} => node[1] = RootNode(Items(tokens, 1)[1])

\* a loop whose body holds a conditional with an else, then another node
C25_Witness ==
    /\ pc = "parsed"
    /\ \E i \in 1..Len(node[1].data) :
        \E n \in {node[1].data[i]} :
            /\ n.type = "LoopNode"
            /\ Len(n.data) >= 2
            /\ n.data[1].type = "IfNode"
            /\ n.data[1].elsenode /= <<>>

\* ------------------------------------------------------------------------
\* Properties of the branch after an else (SpecParse)
\* ------------------------------------------------------------------------

\* the k-th token is an elif tag or an else tag and the innermost block
\* open before it is in its else branch
AfterElse(k) ==
    /\ IsStart(tokens[k], S_elif) \/ IsStart(tokens[k], S_else)
    /\ TopKind(OpenBlocks(tokens, k - 1)) = S_else

\* parse_end_if_token on the stack as it is raises "multiple elses"
MultipleElses ==
    \E r \in {parse_end_if_token(stack, NewToken("EndBlockToken", EndTag(S_if))[2])} :
        IsRaise(r) /\ r[2] = "ValueError"

\* C26: an elif tag or an else tag that follows an open else branch is the
\* last token parse takes: parse fails on it with the error of the
\* unexpected unfinished node, whether or not an end tag would follow.  An
\* ElseNode on the stack is never done, so that parse_end_if_token finds an
\* else only as the last branch and never raises "multiple elses".
C26_RejectedAtShift ==
    /\ \A k \in 1..Len(tokens) :
         AfterElse(k) =>
            /\ k = Len(tokens)
            /\ pc = "failed"
            /\ raised = "CurlyParserUnexpectedUnfinishedNodeError"
    /\ \A i \in 1..Len(stack) : stack[i].type = "ElseNode" => ~stack[i].done
    /\ ~MultipleElses
    /\ pc = "failed" => raised /= "ValueError"

\* if ... else ... else, in a loop, with no end tag in the list
C26_Witness ==
    /\ pc = "failed"
    /\ Len(tokens) >= 4
    /\ IsStart(tokens[1], S_loop)
    /\ AfterElse(Len(tokens))
    /\ IsStart(tokens[Len(tokens)], S_else)
    /\ \A k \in 1..Len(tokens) : tokens[k].class /= "EndBlockToken"

\* ------------------------------------------------------------------------
\* Properties of the order of evaluation (SpecEmit)
\* ------------------------------------------------------------------------

RECURSIVE Chain(_)
\* the branches of a conditional, from the branch n on
Chain(n) == <<n>> \o (IF n.elsenode = <<>> THEN <<>> ELSE Chain(n.elsenode[1]))

RECURSIVE ChainResult(_, _, _)
\* the branch i, its guard evaluated: the guard raises, or it holds and the
\* body alone is emitted, or the next branch is looked at
GuardedResult(chain, i, ctx, guard) ==
    IF IsRaise(guard) THEN Raise(guard[2])
    ELSE IF Truthy(guard[2]) THEN Joined(NodeEmit(chain[i], ctx, 1))
    ELSE ChainResult(chain, i + 1, ctx)

\* what a conditional gives when its branches are looked at from the i-th
\* on, left to right, and nothing after the branch taken is looked at
ChainResult(chain, i, ctx) ==
    IF i > Len(chain) THEN Return(<<>>)
    ELSE IF chain[i].type = "ElseNode" THEN Joined(NodeEmit(chain[i], ctx, 1))
    ELSE GuardedResult(chain, i, ctx, evaluate_expression(chain[i], ctx))

\* the template is one conditional
OneConditional ==
    /\ Len(node[1].data) = 1
    /\ node[1].data[1].type = "IfNode"

\* the template starts with a loop and the call loops over nothing
EmptyLoop(th) ==
    /\ node[1].data[1].type = "LoopNode"
    /\ \E r \in {evaluate_expression(node[1].data[1], th.given)} :
         /\ IsReturn(r)
         /\ LoopItems(r[2]) = Return(<<>>)

\* the frame f emits a branch that comes after an if or an elif of the tree
\* of n whose guard is not false
RECURSIVE Overrun(_, _)
Overrun(n, f) ==
    \/ /\ n.elsenode = <<f.n>>
       /\ \E g \in {evaluate_expression(n, heap[f.ctx])} :
            IsRaise(g) \/ Truthy(g[2])
    \/ \E i \in 1..Len(n.data) : Overrun(n.data[i], f)
    \/ \E i \in 1..Len(n.elsenode) : Overrun(n.elsenode[i], f)

\* C27: a conditional gives what its first branch with a true guard (or its
\* else) gives, whatever the later guards and the other bodies would raise,
\* and raises when a guard that is reached does not resolve; a loop over
\* nothing gives nothing, whatever its body would raise.  No generator is
\* ever started for the body of an if whose guard is not true, for a branch
\* that follows a guard that is not false, or for the body of a loop over
\* nothing.
C27_ShortCircuit ==
    \A t \in 1..Len(threads) :
        /\ (t \in Finished /\ OneConditional) =>
              threads[t].result =
                  ChainResult(Chain(node[1].data[1]), 1, threads[t].given)
        /\ (t \in Finished /\ EmptyLoop(threads[t])) =>
              threads[t].result = Joined(NodeEmit(node[1], threads[t].given, 2))
        /\ \A k \in 1..Len(threads[t].frames) :
             \E f \in {threads[t].frames[k]} :
                /\ ~Overrun(node[1], f)
                /\ (f.line = "for" /\ f.n.type = "IfNode") =>
                      \E g \in {evaluate_expression(f.n, heap[f.ctx])} :
                          IsReturn(g) /\ Truthy(g[2])
        /\ \A k \in InBody(t) : AllItems(threads[t].frames[k]) /= <<>>

\* ------------------------------------------------------------------------
\* Properties of the order of parsing (SpecParse)
\* ------------------------------------------------------------------------

RECURSIVE Shifted(_, _)
\* the first k tokens taken in turn: the stack, or the exception of the
\* first token whose parse function raises
ShiftedNext(prev, token) ==
    IF IsRaise(prev) THEN prev ELSE ParseToken(prev[2], token)

Shifted(toks, k) ==
    IF k = 0 THEN Return(<<>>) ELSE ShiftedNext(Shifted(toks, k - 1), toks[k])

\* the tokens parse may be given next
AnyToken ==
    LiteralTokens(0) \cup PrintTokens \cup StartBlockTokens \cup EndBlockTokens

\* the last token is the first whose parse function raises, and r is its
\* exception: the tokens before it were all taken, on to the stack as it is
Offending(r) ==
    /\ tokens /= <<>>
    /\ Shifted(tokens, Len(tokens) - 1) = Return(stack)
    /\ ParseToken(stack, tokens[Len(tokens)]) = r

\* C28: the tokens are taken left to right; parse fails with the exception
\* of the first token whose parse function raises, no token is taken after
\* it, and whatever tokens follow it in the list parse fails in the same
\* way; the error of the node that is not done is raised only when every
\* token was taken without an exception.
C28_EarliestError ==
    /\ pc = "parse" => Shifted(tokens, Len(tokens)) = Return(stack)
    /\ pc = "failed" =>
         \E r \in {parse(tokens)} :
            /\ IsRaise(r)
            /\ r[2] = raised
            /\ \/ /\ Offending(r)
                  /\ \A t1 \in AnyToken : parse(Append(tokens, t1)) = r
               \/ /\ IsReturn(Shifted(tokens, Len(tokens)))
                  /\ raised = "CurlyParserFoundNotDoneError"
    /\ raised = "CurlyParserFoundNotDoneError" =>
         IsReturn(Shifted(tokens, Len(tokens)))

\* /if in a loop in an if: the end tag raises with two blocks open, which
\* the tags that could follow would close
C28_Witness ==
    /\ pc = "failed"
    /\ raised = "CurlyParserUnexpectedUnfinishedNodeError"
    /\ Len(tokens) >= 3
    /\ IsEnd(tokens[Len(tokens)], S_if)
    /\ Len(OpenBlocks(tokens, Len(tokens) - 1)) = 2
    /\ TopKind(OpenBlocks(tokens, Len(tokens) - 1)) = S_loop

\* ------------------------------------------------------------------------
\* Properties of the scope of item (SpecEmit)
\* ------------------------------------------------------------------------

\* the loops of call t whose body the frame k belongs to
Around(t, k) == {j \in InBody(t) : j < k}

\* the greatest of a set of numbers that is not empty
Innermost(js) == CHOOSE j \in js : \A i \in js : i <= j

\* item as the frame k of call t sees it: <<value>>, or <<>> if not bound
ItemSeen(t, k) ==
    IF PyStr(S_item) \in DictKeys(heap[threads[t].frames[k].ctx])
    THEN <<DictGet(heap[threads[t].frames[k].ctx], PyStr(S_item))>>
    ELSE <<>>

\* item as the caller bound it: <<value>>, or <<>> if not bound
ItemGiven(t) ==
    IF PyStr(S_item) \in DictKeys(threads[t].given)
    THEN <<DictGet(threads[t].given, PyStr(S_item))>>
    ELSE <<>>

\* the value of this turn of the loop of frame f
ItemOfTurn(f) == <<AllItems(f)[Turn(f)]>>

\* C29: a generator started in the body of a loop sees item bound to the
\* value of the turn of the innermost loop around it: the inner value in
\* a nested loop, the outer value again once the inner loop has ended; a
\* generator outside every loop, also after a loop has ended, sees item
\* as the caller bound it, or not bound.
C29_ItemScope ==
    \A t \in 1..Len(threads) :
        \A k \in 1..Len(threads[t].frames) :
            IF Around(t, k) = {}
            THEN ItemSeen(t, k) = ItemGiven(t)
            ELSE ItemSeen(t, k) =
                     ItemOfTurn(threads[t].frames[Innermost(Around(t, k))])

\* the inner loop has ended and the print after it, in the body of the
\* outer loop, is about to resolve item; the caller has bound item too
C29_Witness ==
    /\ Len(threads) = 1
    /\ Resumes(1, "emit", {"PrintNode"})
    /\ Cardinality(InBody(1)) = 1
    /\ Len(threads[1].emitted.chunks) >= 2
    /\ ItemGiven(1) /= <<>>
    /\ ItemSeen(1, Len(threads[1].frames)) /= ItemGiven(1)
    /\ Len(heap) >= 3

\* ------------------------------------------------------------------------
\* Properties of the split of a path (SpecResolve)
\* ------------------------------------------------------------------------

Dots(p) == {i \in 1..Len(p) : p[i] = "."}

\* the segment of a dotted path that stands before every '.'
HeadSegment(p) ==
    SubSeq(p, 1, (CHOOSE i \in Dots(p) : \A j \in Dots(p) : i <= j) - 1)

\* C30: when the direct lookup fails for a dotted path and for the segment
\* before its first '.', resolve_variable raises, whatever other prefix of
\* the path is a key of the context: no other place to split is tried.
C30_NoBacktrack ==
    ( /\ pc = "resolved"
      /\ Dots(path) /= {}
      /\ ~Lookup(path, context)[1]
      /\ ~Lookup(HeadSegment(path), context)[1] )
        => resolver[2] = Raise("ValueError")

\* a.b.b with "a.b" a key that holds a dict with the key "b", and no "a"
C30_Witness ==
    /\ pc = "resolved"
    /\ path = <<"a", ".", "b", ".", "b">>
    /\ DictKeys(context) = {PyStr(<<"a", ".", "b">>)}
    /\ Lookup(S_b, DictGet(context, PyStr(<<"a", ".", "b">>)))[1]
    /\ IsRaise(resolver[2])

====
